---------------------------- MODULE Spec2Model ----------------------------
(***************************************************************************)
(* A model of rds-mcp: the instance directory cache and the name resolver  *)
(* of rds_mcp/client.py, and the four tools of rds_mcp/server.py.          *)
(*                                                                         *)
(* Strings are sequences of one-character strings, so that lower(), `in`   *)
(* and len() are computed, not assumed.  An optional value (Python None or *)
(* a value) is a sequence of length 0 or 1.                                *)
(***************************************************************************)
EXTENDS Integers, Sequences, FiniteSets, TLC

VARIABLES
    now,                  \* the wall clock read by datetime.now(timezone.utc), in seconds
    rds_instances_cache,  \* RDSClient._rds_instances_cache: data and timestamp
    name_matching_cache,  \* RDSClient._name_matching_cache: raw name -> identifier
    unresolved,           \* history: raw names whose latest resolution ended with no match
    last,                 \* observation of the invocation made by the latest step
    m_target,             \* argument `target` of best_matching_rds_instance
    m_candidates,         \* argument `candidates` of best_matching_rds_instance
    m_result,             \* value returned by best_matching_rds_instance
    m_pc                  \* "ready" before the call, "done" after it

VARIABLES
    p_family,             \* the parser that runs: "mysql" or "postgres"
    p_pc,                 \* its position: "lines", "rank", "done" ("off": not running)
    p_line,               \* the line of the log text read by the latest step
    p_read,               \* the number of lines read
    current_entry,        \* get_database_queries: the MySQL record in progress
    capture_sql,          \* get_database_queries: the MySQL capture flag
    sql_lines,            \* get_database_queries: the statement lines gathered
    buffer,               \* get_database_queries: the PostgreSQL block in progress
    log_entries,          \* get_database_queries: the records collected
    p_result              \* the dictionary returned

parserVars == <<p_family, p_pc, p_line, p_read, current_entry, capture_sql, sql_lines,
                buffer, log_entries, p_result>>

VARIABLES
    n_family,             \* the parser whose normaliser runs ("off": none)
    n_sql,                \* the statement text given to the normaliser
    n_pc,                 \* "call" before the normalisation, "done" after it
    n_result              \* its outcome: the text that is emitted, or an exception

normVars == <<n_family, n_sql, n_pc, n_result>>

VARIABLES
    marker,               \* get_database_queries: the cursor of the next download request
    log_data,             \* get_database_queries: the pages downloaded so far
    f_pc,                 \* the download loop: "request", "done", "failed" ("off": none)
    f_requests,           \* history: the download requests made, in order
    f_responses,          \* history: the responses received, in order
    f_text                \* ''.join(log_data), once the loop has ended

fetchVars == <<marker, log_data, f_pc, f_requests, f_responses, f_text>>

VARIABLES
    o_inv,                \* the invocations of the client's methods: called, returned, with
                          \* the time of the run and the number of upstream calls
    o_writes,             \* history: the insertions into the name cache, in order
    o_fetched             \* history: the snapshots that successful fetches produced

overlapVars == <<o_inv, o_writes, o_fetched>>

VARIABLES
    l_now,                \* get_database_queries: the time of the call, in ms since the epoch
    l_period,             \* get_database_queries: period_minutes
    l_threshold,          \* get_database_queries: time_threshold_ms
    describe_marker,      \* the cursor of the next describe_db_log_files request
    log_files,            \* the names of the files kept so far, in the order listed
    l_pc,                 \* "describe", "download", "done", "failed" ("off": none)
    l_requests,           \* history: the describe requests made, in order
    l_responses,          \* history: the describe responses received, in order
    l_downloads           \* history: the files whose download was started, in order

listVars == <<l_now, l_period, l_threshold, describe_marker, log_files, l_pc, l_requests,
              l_responses, l_downloads>>

VARIABLES
    q_text,               \* the slow-query log text the MySQL instance serves
    q_runs                \* history: the get_database_queries invocations made on it,
                          \* each with its period_minutes and its result

periodVars == <<q_text, q_runs>>

\* the variables of the parts that take no step in the client's and the tools'
\* state machines
restVars == <<parserVars, normVars, fetchVars, overlapVars, listVars, periodVars>>

vars == <<now, rds_instances_cache, name_matching_cache, unresolved, last,
          m_target, m_candidates, m_result, m_pc, restVars>>

clientVars == <<now, rds_instances_cache, name_matching_cache, unresolved, last>>
matchVars == <<m_target, m_candidates, m_result, m_pc>>

---------------------------------------------------------------------------
(* Bounds of the model.                                                    *)

\* most invocations in flight at a time
MaxInvocations == 2

\* most download requests of one log file
MaxRequests == 3

\* most values of an IN list given to the normaliser
MaxValues == 7

\* the longest statement given to the normaliser
LongLen == 2000

\* most lines of a log text read by a parser
MaxLines == 4

\* longest list of records handed to the ranking on its own
MaxRecords == 4

\* most records collected before the ranking
ManyRecords == 51

\* longest target string given to best_matching_rds_instance
MaxTarget == 2
\* total number of characters over all candidates of one candidates list
MaxChars == 4
\* the clock stops advancing once it has reached MaxTime seconds
MaxTime == 450
\* most pages one log-portion download loop or one log-file listing returns
MaxPages == 2
\* most log files a log-file listing keeps
MaxFiles == 1
\* most slow-query records the parser finds in one retrieved text
MaxEntries == 1

---------------------------------------------------------------------------
(* Optional values and strings.                                            *)

None == <<>>
Some(x) == <<x>>

\* the characters the matcher's inputs are drawn from
Alphabet == {"a", "A", "b"}

\* str.lower() on one character
LowerChar(c) ==
    CASE c = "A" -> "a" [] c = "B" -> "b" [] c = "C" -> "c" [] c = "D" -> "d"
      [] c = "E" -> "e" [] c = "F" -> "f" [] c = "G" -> "g" [] c = "H" -> "h"
      [] c = "I" -> "i" [] c = "J" -> "j" [] c = "K" -> "k" [] c = "L" -> "l"
      [] c = "M" -> "m" [] c = "N" -> "n" [] c = "O" -> "o" [] c = "P" -> "p"
      [] c = "Q" -> "q" [] c = "R" -> "r" [] c = "S" -> "s" [] c = "T" -> "t"
      [] c = "U" -> "u" [] c = "V" -> "v" [] c = "W" -> "w" [] c = "X" -> "x"
      [] c = "Y" -> "y" [] c = "Z" -> "z" [] OTHER -> c

\* str.lower()
lower(s) == [i \in 1..Len(s) |-> LowerChar(s[i])]

\* Python's `needle in hay` on strings
Contains(hay, needle) ==
    \E i \in 0..(Len(hay) - Len(needle)) :
        SubSeq(hay, i + 1, i + Len(needle)) = needle

---------------------------------------------------------------------------
(* RDSClient.best_matching_rds_instance                                    *)

\* list.sort(key=len) is stable: an element goes after every element that is
\* not longer than it
RECURSIVE InsertByLen(_, _)
InsertByLen(sorted, c) ==
    IF sorted = <<>> THEN <<c>>
    ELSE IF Len(Head(sorted)) <= Len(c)
         THEN <<Head(sorted)>> \o InsertByLen(Tail(sorted), c)
         ELSE <<c>> \o sorted

RECURSIVE SortByLen(_)
SortByLen(s) ==
    IF s = <<>> THEN <<>>
    ELSE InsertByLen(SortByLen(SubSeq(s, 1, Len(s) - 1)), s[Len(s)])

\* the candidates that equal the target ignoring case, in list order
ExactMatches(target, candidates) ==
    SelectSeq(candidates, LAMBDA c : lower(c) = lower(target))

\* partial_matches: either string contains the other, ignoring case
PartialMatches(target, candidates) ==
    SelectSeq(candidates,
              LAMBDA c : \/ Contains(lower(c), lower(target))
                         \/ Contains(lower(target), lower(c)))

\* a matcher without the exact-match loop
best_matching_without_exact(target, candidates) ==
    IF target = <<>> \/ candidates = <<>> THEN None
    ELSE IF PartialMatches(target, candidates) # <<>>
         THEN Some(Head(SortByLen(PartialMatches(target, candidates))))
    ELSE None

\* a matcher that does not sort the partial matches
best_matching_unsorted(target, candidates) ==
    IF target = <<>> \/ candidates = <<>> THEN None
    ELSE IF ExactMatches(target, candidates) # <<>>
         THEN Some(Head(ExactMatches(target, candidates)))
    ELSE IF PartialMatches(target, candidates) # <<>>
         THEN Some(Head(PartialMatches(target, candidates)))
    ELSE None

\* a matcher that returns the lower-case text it compared
best_matching_lowercased(target, candidates) ==
    IF target = <<>> \/ candidates = <<>> THEN None
    ELSE IF ExactMatches(target, candidates) # <<>>
         THEN Some(lower(Head(ExactMatches(target, candidates))))
    ELSE IF PartialMatches(target, candidates) # <<>>
         THEN Some(lower(Head(SortByLen(PartialMatches(target, candidates)))))
    ELSE None

best_matching_rds_instance(target, candidates) ==
    IF target = <<>> \/ candidates = <<>> THEN None
    ELSE IF ExactMatches(target, candidates) # <<>>
         THEN Some(Head(ExactMatches(target, candidates)))
    ELSE IF PartialMatches(target, candidates) # <<>>
         THEN Some(Head(SortByLen(PartialMatches(target, candidates))))
    ELSE None

\* all strings over Alphabet of length lo..hi
Strings(lo, hi) == UNION {[1..k -> Alphabet] : k \in lo..hi}

\* all lists of non-empty strings whose lengths add up to at most n
RECURSIVE CandidateLists(_)
CandidateLists(n) ==
    {<<>>} \cup
    UNION {{<<s>> \o rest : rest \in CandidateLists(n - Len(s))} :
               s \in Strings(1, n)}

\* one call of best_matching_rds_instance on a target and a candidates list
InitMatch ==
    /\ m_target \in Strings(0, MaxTarget)
    /\ m_candidates \in CandidateLists(MaxChars)
    /\ m_result = None
    /\ m_pc = "ready"

\* the caller's list after the call: the loop and the comprehension read it,
\* and sort() is applied to partial_matches, a list of its own
candidates_after(target, candidates) == candidates

MatchCall ==
    /\ m_pc = "ready"
    /\ m_result' = best_matching_rds_instance(m_target, m_candidates)
    /\ m_candidates' = candidates_after(m_target, m_candidates)
    /\ m_pc' = "done"
    /\ UNCHANGED m_target

---------------------------------------------------------------------------
(* The world outside the process: what the control-plane API, the metrics  *)
(* API and the inference service may answer.                               *)

db1 == <<"d", "b", "1">>
db2 == <<"d", "b", "2">>
\* an identifier no directory lists
ghost == <<"x", "9">>

\* raw names a caller passes; they differ in letter case only
RawNames == {<<"d", "b">>, <<"D", "B">>}

\* the raw names passed in direct calls of the resolver: those, one that
\* differs from them in surrounding whitespace, and one that is an identifier
\* in another letter case
Spellings == RawNames \cup {<<"d", "b", " ">>, <<"D", "B", "1">>}

\* the instance lists describe_db_instances() may return
Directories == {<<>>, <<db1>>, <<db1, db2>>}

\* describe_db_instances(): raises, or returns a list of identifiers
DirectoryResponses ==
    {[ok |-> FALSE, ids |-> <<>>]} \cup {[ok |-> TRUE, ids |-> d] : d \in Directories}

\* identifiers the inference service may name
LLMIds == {db1, ghost}

\* completion(): "fail" it raised; "nonjson" the content is not JSON; "nondict"
\* JSON that is no object; "missing" an object without rds_instance; "null"
\* rds_instance is null; "empty" rds_instance is ""; "id" an identifier
LLMFailureKinds == {"fail", "nonjson", "nondict", "missing", "null", "empty"}
LLMResponses ==
    {[kind |-> k, value |-> <<>>] : k \in LLMFailureKinds}
        \cup {[kind |-> "id", value |-> i] : i \in LLMIds}

mysql == <<"m", "y", "s", "q", "l">>
postgres == <<"p", "o", "s", "t", "g", "r", "e", "s">>
\* values of the Engine field of an instance
Engines ==
    { mysql,
      <<"A", "u", "r", "o", "r", "a", "-", "M", "y", "S", "Q", "L">>,
      postgres,
      <<"o", "r", "a", "c", "l", "e", "-", "e", "e">>,
      <<"m", "a", "r", "i", "a", "d", "b">> }

\* describe_db_instances(DBInstanceIdentifier=...): raises (or lists nothing),
\* or returns a record; `engine` is None when the record has no Engine key,
\* `full` says whether it has the six fields get_db_info reports
DescribeResponses ==
    {[ok |-> FALSE, engine |-> None, full |-> FALSE]}
        \cup {[ok |-> TRUE, engine |-> e, full |-> f] :
                 e \in {None} \cup {Some(x) : x \in Engines}, f \in BOOLEAN}

---------------------------------------------------------------------------
(* rds_mcp/client.py: RDSClient                                            *)

\* "cache_ttl": 300
cache_ttl == 300

\* RDSClient.__init__: both caches start empty
EmptyInstancesCache == [data |-> None, timestamp |-> None]
EmptyNameCache == <<>>

\* one upstream call: the operation called, whether it returned, and what the
\* answer was like
Call(api, ok, note) == [api |-> api, ok |-> ok, note |-> note]

\* formatted_response of get_available_rds_instances
FormattedResponse(ids) ==
    [status |-> "ok", rds_instances |-> ids, total_rds_instances |-> Len(ids)]

\* the dict get_available_rds_instances returns when the fetch raised
FetchError ==
    [status |-> "error", rds_instances |-> <<>>, total_rds_instances |-> 0]

\* a cache check that still accepts a snapshot of age cache_ttl
CacheValidInclusive(cache, t) ==
    /\ cache.data # None
    /\ cache.timestamp # None
    /\ t - cache.timestamp[1] <= cache_ttl

\* the cache check of get_available_rds_instances
CacheValid(cache, t) ==
    /\ cache.data # None
    /\ cache.timestamp # None
    /\ t - cache.timestamp[1] < cache_ttl

\* a fetch that drops the snapshot when describe_db_instances raises
get_available_rds_instances_clearing(cache, t, resp) ==
    IF CacheValid(cache, t)
    THEN [ret |-> cache.data[1], cache |-> cache, calls |-> <<>>]
    ELSE IF resp.ok
    THEN [ret |-> FormattedResponse(resp.ids),
          cache |-> [data |-> Some(FormattedResponse(resp.ids)), timestamp |-> Some(t)],
          calls |-> <<Call("describe_db_instances", TRUE, "list")>>]
    ELSE [ret |-> FetchError,
          cache |-> EmptyInstancesCache,
          calls |-> <<Call("describe_db_instances", FALSE, "list")>>]

\* a fetch that stamps the cache although describe_db_instances raised
get_available_rds_instances_stamping(cache, t, resp) ==
    IF CacheValid(cache, t)
    THEN [ret |-> cache.data[1], cache |-> cache, calls |-> <<>>]
    ELSE IF resp.ok
    THEN [ret |-> FormattedResponse(resp.ids),
          cache |-> [data |-> Some(FormattedResponse(resp.ids)), timestamp |-> Some(t)],
          calls |-> <<Call("describe_db_instances", TRUE, "list")>>]
    ELSE [ret |-> FetchError,
          cache |-> [data |-> cache.data, timestamp |-> Some(t)],
          calls |-> <<Call("describe_db_instances", FALSE, "list")>>]

\* get_available_rds_instances at time t, `resp` being what describe_db_instances
\* answers if it is called: the value returned, the cache afterwards, the calls made
get_available_rds_instances(cache, t, resp) ==
    IF CacheValid(cache, t)
    THEN [ret |-> cache.data[1], cache |-> cache, calls |-> <<>>]
    ELSE IF resp.ok
    THEN [ret |-> FormattedResponse(resp.ids),
          cache |-> [data |-> Some(FormattedResponse(resp.ids)), timestamp |-> Some(t)],
          calls |-> <<Call("describe_db_instances", TRUE, "list")>>]
    ELSE [ret |-> FetchError,
          cache |-> cache,
          calls |-> <<Call("describe_db_instances", FALSE, "list")>>]

\* the name cache with one more entry
Memoize(names, key, id) ==
    [k \in DOMAIN names \cup {key} |-> IF k = key THEN id ELSE names[k]]

\* find_matching_rds_instances(database_name) at time t; `dresp` and `lresp` are
\* what the directory and the inference service answer if they are called.
\* raised: an exception left the method (available_instances['rds_instances']
\* on the error dict); hit: the name cache answered; ret: the value returned;
\* llm: the answer of the inference service, if it was called.
\* LookUp is the method's path after a miss of the name cache.
LookUp(database_name, names, cache, t, dresp, lresp) ==
    LET avail == get_available_rds_instances(cache, t, dresp)
        llm == Call("llm", lresp.kind # "fail", lresp.kind)
    IN IF avail.ret.status = "error"
       THEN [raised |-> TRUE, hit |-> FALSE, ret |-> None, llm |-> None,
             names |-> names, cache |-> avail.cache, calls |-> avail.calls]
       ELSE IF lresp.kind = "id"
       THEN [raised |-> FALSE, hit |-> FALSE, ret |-> Some(lresp.value),
             llm |-> Some(lresp),
             names |-> Memoize(names, database_name, lresp.value),
             cache |-> avail.cache, calls |-> Append(avail.calls, llm)]
       ELSE [raised |-> FALSE, hit |-> FALSE, ret |-> None,
             llm |-> Some(lresp), names |-> names, cache |-> avail.cache,
             calls |-> Append(avail.calls, llm)]

\* the value returned from the name cache
CacheHit(database_name, names, cache) ==
    [raised |-> FALSE, hit |-> TRUE, ret |-> Some(names[database_name]),
     llm |-> None, names |-> names, cache |-> cache, calls |-> <<>>]

\* a resolver that never consults the name cache
find_matching_uncached(database_name, names, cache, t, dresp, lresp) ==
    LookUp(database_name, names, cache, t, dresp, lresp)

\* a resolver that remembers a failed resolution as an empty identifier
find_matching_negative_caching(database_name, names, cache, t, dresp, lresp) ==
    IF database_name \in DOMAIN names
    THEN CacheHit(database_name, names, cache)
    ELSE LET o == LookUp(database_name, names, cache, t, dresp, lresp)
         IN IF ~o.raised /\ o.ret = None
            THEN [o EXCEPT !.names = Memoize(names, database_name, <<>>)]
            ELSE o

\* a resolver that accepts an identifier only if the directory lists it
find_matching_validating(database_name, names, cache, t, dresp, lresp) ==
    IF database_name \in DOMAIN names
    THEN CacheHit(database_name, names, cache)
    ELSE LET o == LookUp(database_name, names, cache, t, dresp, lresp)
             ids == get_available_rds_instances(cache, t, dresp).ret.rds_instances
         IN IF o.ret # None /\ ~(\E i \in DOMAIN ids : ids[i] = o.ret[1])
            THEN [o EXCEPT !.ret = None, !.names = names]
            ELSE o

\* a resolver that forgets an entry whose identifier the held directory
\* snapshot does not list, and resolves the name again
find_matching_revalidating(database_name, names, cache, t, dresp, lresp) ==
    IF database_name \in DOMAIN names
    THEN IF \/ cache.data = None
            \/ \E i \in DOMAIN cache.data[1].rds_instances :
                    cache.data[1].rds_instances[i] = names[database_name]
         THEN CacheHit(database_name, names, cache)
         ELSE LookUp(database_name,
                     [k \in DOMAIN names \ {database_name} |-> names[k]],
                     cache, t, dresp, lresp)
    ELSE LookUp(database_name, names, cache, t, dresp, lresp)

\* a resolver that hands the name to the deterministic matcher when the
\* inference call gave no identifier
find_matching_falling_back(database_name, names, cache, t, dresp, lresp) ==
    IF database_name \in DOMAIN names
    THEN CacheHit(database_name, names, cache)
    ELSE LET o == LookUp(database_name, names, cache, t, dresp, lresp)
             ids == get_available_rds_instances(cache, t, dresp).ret.rds_instances
         IN IF ~o.raised /\ o.ret = None
            THEN [o EXCEPT !.ret = best_matching_rds_instance(database_name, ids)]
            ELSE o

\* a resolver whose cache key is the name in lower case without surrounding
\* whitespace
find_matching_normalizing(database_name, names, cache, t, dresp, lresp) ==
    LET key == [i \in 1..Len(database_name) |-> LowerChar(database_name[i])]
        cache_key == IF key # <<>> /\ key[Len(key)] = " "
                     THEN SubSeq(key, 1, Len(key) - 1) ELSE key
    IN IF cache_key \in DOMAIN names
       THEN CacheHit(cache_key, names, cache)
       ELSE LookUp(cache_key, names, cache, t, dresp, lresp)

\* find_matching_rds_instances; cache_key = f"{database_name}" is the name itself
find_matching_rds_instances(database_name, names, cache, t, dresp, lresp) ==
    IF database_name \in DOMAIN names
    THEN CacheHit(database_name, names, cache)
    ELSE LookUp(database_name, names, cache, t, dresp, lresp)

\* every way one resolution of `database_name` can go from the current state
Resolutions(database_name) ==
    { find_matching_rds_instances(database_name, name_matching_cache,
                                  rds_instances_cache, now, d, l) :
          d \in DirectoryResponses, l \in LLMResponses }

---------------------------------------------------------------------------
(* rds_mcp/server.py: RDSMCPServer, the four tools                         *)

\* what an invocation hands back: kind "return" with the returned dict's status
\* and message, or kind "raise" when an exception leaves the method
Return(status, message, data) ==
    [kind |-> "return", status |-> status, message |-> message, data |-> data]
ErrorResult(message) == Return("error", message, <<>>)
Raise(exception) ==
    [kind |-> "raise", status |-> "", message |-> exception, data |-> <<>>]

NoMatchMessage == "No matching RDS instance found"

\* the part of a tool that every tool starts with: resolution raised (caught by
\* the tool's except clause), or returned no match
ResolutionError(r) ==
    IF r.raised THEN ErrorResult("'rds_instances'") ELSE ErrorResult(NoMatchMessage)

\* what one tool invocation did: the result, the upstream calls in order, the
\* Engine value the describe call gave (get_database_queries), and whether a
\* slow-query parser ran
Outcome(result, calls, engine, parsed) ==
    [result |-> result, calls |-> calls, engine |-> engine, parsed |-> parsed]

\* period_minutes of get_database_queries (60 unless given) and minutes of
\* get_top_rds_load (30 unless given)
Periods == {30, 60}
\* the periods of the invocations: two usual ones, and one of some 3800 years
QueryPeriods == Periods \cup {2000000000}

\* `datetime.now(timezone.utc) - timedelta(minutes=period_minutes)` for a call
\* at 2024-01-01T10:01Z, 738885 days after 0001-01-01: OverflowError ("date
\* value out of range") when the date would fall before the year 1.  The
\* periods are machine integers of 32 bits: none of them is beyond the range
\* of timedelta (999999999 days) or takes the date past the year 9999
ThresholdInRange(period_minutes) == period_minutes <= 738885 * 1440 + 601

\* a get_db_info that does not test the resolution's result for "no match"
get_db_info_unchecked(r, desc) ==
    IF r.raised
    THEN Outcome(ErrorResult("'rds_instances'"), r.calls, None, FALSE)
    ELSE LET calls == Append(r.calls, Call("describe_db_instance", desc.ok, "one"))
         IN IF ~desc.ok
            THEN Outcome(ErrorResult("describe_db_instances failed"), calls, None, FALSE)
            ELSE IF ~desc.full
            THEN Outcome(Raise("KeyError"), calls, None, FALSE)
            ELSE Outcome(Return("available", "", r.ret), calls, None, FALSE)

\* get_db_info after the resolution r, `desc` being what the describe call
\* answers if it is made.  The returned dict is built after the try block.
get_db_info(r, desc) ==
    IF r.raised \/ r.ret = None
    THEN Outcome(ResolutionError(r), r.calls, None, FALSE)
    ELSE LET calls == Append(r.calls, Call("describe_db_instance", desc.ok, "one"))
         IN IF ~desc.ok
            THEN Outcome(ErrorResult("describe_db_instances failed"), calls, None, FALSE)
            ELSE IF ~desc.full
            THEN Outcome(Raise("KeyError"), calls, None, FALSE)
            ELSE Outcome(Return("available", "", r.ret), calls, None, FALSE)

\* the metrics list of get_database_metrics has nine entries
NumMetrics == 9

\* the get_metric_data calls of one invocation: every call returns (failAt = 0)
\* or call number failAt raises
MetricCalls(failAt) ==
    [i \in 1..(IF failAt = 0 THEN NumMetrics ELSE failAt) |->
        Call("get_metric_data", i # failAt, "metric")]

\* get_database_metrics after the resolution r; `empty` says whether the
\* Values lists come back empty (the metric is then reported as None)
get_database_metrics(r, failAt, empty) ==
    IF r.raised \/ r.ret = None
    THEN Outcome(ResolutionError(r), r.calls, None, FALSE)
    ELSE IF failAt # 0
    THEN Outcome(ErrorResult("get_metric_data failed"),
                 r.calls \o MetricCalls(failAt), None, FALSE)
    ELSE Outcome(Return("success", "", <<r.ret[1], IF empty THEN None ELSE Some(1)>>),
                 r.calls \o MetricCalls(0), None, FALSE)

\* an engine test whose last branch is the MySQL one
EngineFamilyDefaultMySql(engine) ==
    IF Contains(lower(engine), postgres) THEN "postgres" ELSE "mysql"

\* engine = db_instance['Engine'].lower(); 'mysql' in engine is tested first
EngineFamily(engine) ==
    IF Contains(lower(engine), mysql) THEN "mysql"
    ELSE IF Contains(lower(engine), postgres) THEN "postgres"
    ELSE "other"

\* what parsing and normalising one retrieved text comes to: an exception
\* inside the try block, or `entries` records
NoParse == [raised |-> FALSE, entries |-> 0]
ParseOutcomes ==
    {[raised |-> TRUE, entries |-> 0]}
        \cup {[raised |-> FALSE, entries |-> n] : n \in 0..MaxEntries}

\* one download loop and the parsing of its text: `pages` requests are made;
\* all but the last report more data pending; the last one raises (ok = FALSE)
\* or ends the loop, and the text is then parsed
DownloadRuns ==
    {[pages |-> n, ok |-> FALSE, parse |-> NoParse] : n \in 1..MaxPages}
        \cup {[pages |-> n, ok |-> TRUE, parse |-> p] :
                 n \in 1..MaxPages, p \in ParseOutcomes}

DownloadCalls(run) ==
    [i \in 1..run.pages |->
        Call("download_db_log_file_portion", i < run.pages \/ run.ok,
             IF i < run.pages THEN "pending" ELSE "end")]

\* the loop ended and the parser returned
RunOk(run) == run.ok /\ ~run.parse.raised

\* one listing loop of describe_db_log_files: `pages` requests, the last of
\* which raises or carries no marker; `files` recent files are kept in all
ListingRuns ==
    {[pages |-> n, ok |-> FALSE, files |-> 0] : n \in 1..MaxPages}
        \cup {[pages |-> n, ok |-> TRUE, files |-> f] : n \in 1..MaxPages, f \in 0..MaxFiles}

ListingCalls(run) ==
    [i \in 1..run.pages |->
        Call("describe_db_log_files", i < run.pages \/ run.ok,
             IF i < run.pages THEN "marker" ELSE "end")]

\* the files are downloaded and parsed one after the other, up to the first
\* whose download or parsing raises
RECURSIVE FileCalls(_)
FileCalls(runs) ==
    IF runs = <<>> THEN <<>>
    ELSE IF ~RunOk(Head(runs)) THEN DownloadCalls(Head(runs))
    ELSE DownloadCalls(Head(runs)) \o FileCalls(Tail(runs))

\* the first file whose download or parsing raises, if any
RECURSIVE FirstBad(_)
FirstBad(runs) ==
    IF runs = <<>> THEN None
    ELSE IF ~RunOk(Head(runs)) THEN Some(Head(runs))
    ELSE FirstBad(Tail(runs))

\* the records found in all the files
RECURSIVE Entries(_)
Entries(runs) ==
    IF runs = <<>> THEN 0 ELSE Head(runs).parse.entries + Entries(Tail(runs))

\* a file the invocation never gets to
Unread == [pages |-> 1, ok |-> TRUE, parse |-> NoParse]

\* the files after the first that raises are never read: they are left Unread
Canonical(runs) ==
    \A i, j \in 1..Len(runs) : (i < j /\ ~RunOk(runs[i])) => runs[j] = Unread

\* what the log retrieval of one invocation meets: for the MySQL family one
\* download loop, for the Postgres family a listing loop and one download loop
\* per file kept
MySqlFetches == {[listing |-> None, runs |-> <<d>>] : d \in DownloadRuns}
PostgresFetches ==
    UNION {{[listing |-> Some(l), runs |-> rs] :
                rs \in {x \in [1..l.files -> DownloadRuns] : Canonical(x)}} :
               l \in ListingRuns}
NoFetch == [listing |-> None, runs |-> <<>>]

\* the retrievals an instance of this engine can meet
FetchesOf(engine) ==
    IF EngineFamily(engine) = "mysql" THEN MySqlFetches
    ELSE IF EngineFamily(engine) = "postgres" THEN PostgresFetches
    ELSE {NoFetch}

ListingOk(fetch) == fetch.listing # None => fetch.listing[1].ok

FetchCalls(fetch) ==
    IF ~ListingOk(fetch) THEN ListingCalls(fetch.listing[1])
    ELSE IF fetch.listing = None THEN FileCalls(fetch.runs)
    ELSE ListingCalls(fetch.listing[1]) \o FileCalls(fetch.runs)

\* whether a parser was applied to some retrieved text
ParserRan(fetch) ==
    ListingOk(fetch) /\ fetch.runs # <<>> /\ Head(fetch.runs).ok

Min(a, b) == IF a <= b THEN a ELSE b

\* log_entries = log_entries[:50]; "top_5_queries": log_entries[:5]
QueriesResult(id, entries) ==
    Return("success", "", <<id, Min(entries, 50), Min(Min(entries, 50), 5)>>)

\* what the retrieval and the parsing come to: the except clause's message, or
\* the success result
FetchResult(id, fetch) ==
    IF ~ListingOk(fetch) THEN ErrorResult("log retrieval failed")
    ELSE IF FirstBad(fetch.runs) = None THEN QueriesResult(id, Entries(fetch.runs))
    ELSE IF ~FirstBad(fetch.runs)[1].ok THEN ErrorResult("log retrieval failed")
    ELSE ErrorResult("parsing failed")

\* the engine branch of get_database_queries once the describe call returned
QueriesOfEngine(r, calls, engine, fetch) ==
    IF EngineFamily(engine) = "other"
    THEN Outcome(Return("error", "Unsupported database engine", <<lower(engine)>>),
                 calls, Some(engine), FALSE)
    ELSE Outcome(FetchResult(r.ret[1], fetch), calls \o FetchCalls(fetch),
                 Some(engine), ParserRan(fetch))

\* get_database_queries after the resolution r; time_threshold is computed
\* inside the try block, after the test for a match and before the describe call
get_database_queries(r, period_minutes, desc, fetch) ==
    IF r.raised \/ r.ret = None
    THEN Outcome(ResolutionError(r), r.calls, None, FALSE)
    ELSE IF ~ThresholdInRange(period_minutes)
    THEN Outcome(ErrorResult("date value out of range"), r.calls, None, FALSE)
    ELSE LET calls == Append(r.calls, Call("describe_db_instance", desc.ok, "one"))
         IN IF ~desc.ok
            THEN Outcome(ErrorResult("describe_db_instances failed"), calls, None, FALSE)
            ELSE IF desc.engine = None
            THEN Outcome(ErrorResult("'Engine'"), calls, None, FALSE)
            ELSE QueriesOfEngine(r, calls, desc.engine[1], fetch)

\* get_top_rds_load after the resolution r: it calls get_db_info, reads
\* db_info['DbiResourceId'] (absent from an error dict), computes start_time =
\* now - timedelta(minutes=minutes), then reads self.client.pi_client
\* (RDSClient has no such attribute); the method has no try block
get_top_rds_load(r, minutes, desc) ==
    LET info == get_db_info(r, desc)
    IN IF info.result.kind = "raise" THEN info
       ELSE IF info.result.status = "error"
       THEN Outcome(Raise("KeyError"), info.calls, None, FALSE)
       ELSE IF ~ThresholdInRange(minutes)
       THEN Outcome(Raise("OverflowError"), info.calls, None, FALSE)
       ELSE Outcome(Raise("AttributeError"), info.calls, None, FALSE)

---------------------------------------------------------------------------
(* Text operations of Python used by the slow-query parsers.               *)

\* the index of the first occurrence of `sep` in s at or after `from`, 0 if none
Find(s, sep, from) ==
    LET hits == {i \in from..(Len(s) - Len(sep) + 1) :
                     SubSeq(s, i, i + Len(sep) - 1) = sep}
    IN IF hits = {} THEN 0 ELSE CHOOSE i \in hits : \A j \in hits : i <= j

\* s[i:] with i counted from 1
From(s, i) == SubSeq(s, i, Len(s))

\* str.startswith
StartsWith(s, prefix) ==
    Len(prefix) <= Len(s) /\ SubSeq(s, 1, Len(prefix)) = prefix

\* str.split(sep)
RECURSIVE Split(_, _)
Split(s, sep) ==
    IF Find(s, sep, 1) = 0 THEN <<s>>
    ELSE <<SubSeq(s, 1, Find(s, sep, 1) - 1)>>
             \o Split(From(s, Find(s, sep, 1) + Len(sep)), sep)

\* str.split(sep, 1)
SplitOnce(s, sep) ==
    IF Find(s, sep, 1) = 0 THEN <<s>>
    ELSE <<SubSeq(s, 1, Find(s, sep, 1) - 1), From(s, Find(s, sep, 1) + Len(sep))>>

\* sep.join(parts)
RECURSIVE Join(_, _)
Join(parts, sep) ==
    IF parts = <<>> THEN <<>>
    ELSE IF Len(parts) = 1 THEN parts[1]
    ELSE parts[1] \o sep \o Join(Tail(parts), sep)

\* str.replace(old, new)
Replace(s, old, new) == Join(Split(s, old), new)

\* the characters str.strip() removes: the ASCII ones for which str.isspace()
\* holds (space, \t, \n, \r, form feed, vertical tab, and the separators
\* 0x1c..0x1f); the spaces beyond ASCII are not in the model's texts
Whitespace == {" ", "\t", "\n", "\r", "\f", "", "", "", "", ""}

\* str.strip()
Strip(s) ==
    LET inked == {i \in 1..Len(s) : s[i] \notin Whitespace}
    IN IF inked = {} THEN <<>>
       ELSE SubSeq(s, CHOOSE i \in inked : \A j \in inked : i <= j,
                      CHOOSE i \in inked : \A j \in inked : j <= i)

\* str.upper() on one character
UpperChar(c) ==
    CASE c = "a" -> "A" [] c = "b" -> "B" [] c = "c" -> "C" [] c = "d" -> "D"
      [] c = "e" -> "E" [] c = "f" -> "F" [] c = "g" -> "G" [] c = "h" -> "H"
      [] c = "i" -> "I" [] c = "j" -> "J" [] c = "k" -> "K" [] c = "l" -> "L"
      [] c = "m" -> "M" [] c = "n" -> "N" [] c = "o" -> "O" [] c = "p" -> "P"
      [] c = "q" -> "Q" [] c = "r" -> "R" [] c = "s" -> "S" [] c = "t" -> "T"
      [] c = "u" -> "U" [] c = "v" -> "V" [] c = "w" -> "W" [] c = "x" -> "X"
      [] c = "y" -> "Y" [] c = "z" -> "Z" [] OTHER -> c

\* str.upper()
upper(s) == [i \in 1..Len(s) |-> UpperChar(s[i])]

Digits == {"0", "1", "2", "3", "4", "5", "6", "7", "8", "9"}

Letters ==
    {"a", "b", "c", "d", "e", "f", "g", "h", "i", "j", "k", "l", "m",
     "n", "o", "p", "q", "r", "s", "t", "u", "v", "w", "x", "y", "z"}

\* the characters the regular expressions' \w matches
WordChars == Digits \cup {"_"} \cup Letters \cup {UpperChar(c) : c \in Letters}

\* the end of the longest run of characters of `class` that starts at i
\* (i - 1 if s[i] is not in the class)
RunEnd(s, i, class) ==
    LET stops == {j \in i..Len(s) : s[j] \notin class}
    IN IF stops = {} THEN Len(s)
       ELSE (CHOOSE j \in stops : \A k \in stops : j <= k) - 1

\* the end of a match of \d+\.?\d* that starts at i (i - 1 if there is none)
NumberEnd(s, i) ==
    LET a == RunEnd(s, i, Digits)
    IN IF a < i THEN i - 1
       ELSE IF a < Len(s) /\ s[a + 1] = "." THEN RunEnd(s, a + 2, Digits)
       ELSE a

---------------------------------------------------------------------------
(* The query normaliser, as each parser has it.                            *)

\* the text put before the shortened value list
InKeyword == <<"I", "N", " ", "(">>

\* f"{','.join(values[:3])}, ... {','.join(values[-2:])}"
Truncated(values) ==
    Join(SubSeq(values, 1, 3), <<",">>) \o <<",", " ", ".", ".", ".", " ">>
        \o Join(SubSeq(values, Len(values) - 1, Len(values)), <<",">>)

\* the longest statement that is reported whole
MaxSqlLen == 1500

TruncationMarker ==
    <<".", ".", ".", " ", "[", "t", "r", "u", "n", "c", "a", "t", "e", "d", "]">>

\* a variant that also cuts a statement of exactly the limit
TruncateFromLimit(sql) ==
    IF Len(sql) >= MaxSqlLen THEN SubSeq(sql, 1, MaxSqlLen) \o TruncationMarker ELSE sql

\* if len(sql) > 1500: sql = f"{sql[:1500]}... [truncated]"
Truncate(sql) ==
    IF Len(sql) > MaxSqlLen THEN SubSeq(sql, 1, MaxSqlLen) \o TruncationMarker ELSE sql

\* the outcome of a normalisation: the text, or an exception (parts[1] or
\* in_clause[1] does not exist: IndexError)
Normalized(sql) == [raised |-> FALSE, sql |-> sql]
NormalizeError == [raised |-> TRUE, sql |-> <<>>]

\* the IN-list step of the MySQL parser; in_clause[1] is guarded
CollapseMySql(sql) ==
    IF ~Contains(upper(sql), InKeyword) THEN Normalized(sql)
    ELSE LET parts == Split(sql, InKeyword)
         IN IF Len(parts) < 2 THEN NormalizeError
            ELSE LET in_clause == SplitOnce(parts[2], <<")">>)
                     values == Split(in_clause[1], <<",">>)
                 IN IF Len(values) > 5
                    THEN Normalized(parts[1] \o InKeyword \o Truncated(values) \o <<")">>
                                    \o (IF Len(in_clause) > 1 THEN in_clause[2] ELSE <<>>))
                    ELSE Normalized(sql)

\* the IN-list step of the Postgres parser; in_clause[1] is not guarded
CollapsePostgres(sql) ==
    IF ~Contains(upper(sql), InKeyword) THEN Normalized(sql)
    ELSE LET parts == Split(sql, InKeyword)
         IN IF Len(parts) < 2 THEN NormalizeError
            ELSE LET in_clause == SplitOnce(parts[2], <<")">>)
                     values == Split(in_clause[1], <<",">>)
                 IN IF Len(values) > 5
                    THEN IF Len(in_clause) < 2 THEN NormalizeError
                         ELSE Normalized(parts[1] \o InKeyword \o Truncated(values)
                                         \o <<")">> \o in_clause[2])
                    ELSE Normalized(sql)

\* the IN-list step followed by the truncation
NormalizeMySql(sql) ==
    IF CollapseMySql(sql).raised THEN NormalizeError
    ELSE Normalized(Truncate(CollapseMySql(sql).sql))

NormalizePostgres(sql) ==
    IF CollapsePostgres(sql).raised THEN NormalizeError
    ELSE Normalized(Truncate(CollapsePostgres(sql).sql))

---------------------------------------------------------------------------
(* Numbers and timestamps read from the log text.                          *)

Digits10 == <<"0", "1", "2", "3", "4", "5", "6", "7", "8", "9">>

DigitValue(c) ==
    CASE c = "0" -> 0 [] c = "1" -> 1 [] c = "2" -> 2 [] c = "3" -> 3 [] c = "4" -> 4
      [] c = "5" -> 5 [] c = "6" -> 6 [] c = "7" -> 7 [] c = "8" -> 8 [] c = "9" -> 9

\* int() of a string of digits
RECURSIVE Natural(_)
Natural(ds) ==
    IF ds = <<>> THEN 0
    ELSE 10 * Natural(SubSeq(ds, 1, Len(ds) - 1)) + DigitValue(ds[Len(ds)])

\* the digits of a fraction without its trailing zeros
RECURSIVE TrimZeros(_)
TrimZeros(ds) ==
    IF ds # <<>> /\ ds[Len(ds)] = "0" THEN TrimZeros(SubSeq(ds, 1, Len(ds) - 1)) ELSE ds

\* float(value) for a match of \d+\.?\d*: the whole part and the digits of the
\* fraction, exact for the decimals a double tells apart
Float(value) ==
    LET dot == Find(value, <<".">>, 1)
    IN [whole |-> Natural(IF dot = 0 THEN value ELSE SubSeq(value, 1, dot - 1)),
        frac |-> IF dot = 0 THEN <<>> ELSE TrimZeros(From(value, dot + 1))]

Zero == [whole |-> 0, frac |-> <<>>]

\* the order of texts by code point, as Python compares str; of the characters
\* of a number only "." sorts before the digits
CharBefore(c, d) ==
    IF c = "." THEN d # "."
    ELSE IF d = "." THEN FALSE
    ELSE DigitValue(c) < DigitValue(d)

RECURSIVE TextBefore(_, _)
TextBefore(s, t) ==
    IF t = <<>> THEN FALSE
    ELSE IF s = <<>> THEN TRUE
    ELSE IF Head(s) # Head(t) THEN CharBefore(Head(s), Head(t))
    ELSE TextBefore(Tail(s), Tail(t))

\* x < y for two floats
FloatBefore(x, y) ==
    x.whole < y.whole \/ (x.whole = y.whole /\ TextBefore(x.frac, y.frac))

\* int(value) raises ValueError unless the text is all digits
IsInteger(value) == value # <<>> /\ \A i \in 1..Len(value) : value[i] \in Digits

AllDigits(s, from, to) ==
    to <= Len(s) /\ \A i \in from..to : s[i] \in Digits

\* the days of a month of the proleptic Gregorian calendar
DaysInMonth(year, month) ==
    IF month \in {4, 6, 9, 11} THEN 30
    ELSE IF month # 2 THEN 31
    ELSE IF year % 4 = 0 /\ (year % 100 # 0 \/ year % 400 = 0) THEN 29
    ELSE 28

\* where a field of one or two characters that starts at `from` ends, the
\* character after it being one of seps; 0 if there is no such field
FieldEnd(s, from, seps) ==
    IF from + 1 <= Len(s) /\ s[from + 1] \in seps THEN from
    ELSE IF from + 2 <= Len(s) /\ s[from + 2] \in seps THEN from + 1
    ELSE 0

\* a field of digits whose value is in lo..hi
DigitsIn(s, from, to, lo, hi) ==
    /\ AllDigits(s, from, to)
    /\ Natural(SubSeq(s, from, to)) >= lo
    /\ Natural(SubSeq(s, from, to)) <= hi

\* %d also takes a space and a digit from 1 to 9
DayValue(s, from, to) ==
    IF to = from + 1 /\ s[from] = " " THEN DigitValue(s[to])
    ELSE Natural(SubSeq(s, from, to))

\* a number below 100 written with two digits
TwoDigits(v) == <<Digits10[(v \div 10) + 1], Digits10[(v % 10) + 1]>>

\* datetime.strptime(ts_str, '%Y-%m-%dT%H:%M:%S.%fZ').replace(tzinfo=utc).isoformat():
\* the ISO text, or None for ValueError.  The fields of the format take one or
\* two digits (the year four, the fraction one to six), and its letters T and
\* Z match in either case
ParseTime(ts_str) ==
    LET n == Len(ts_str)
        me == IF n >= 5 /\ AllDigits(ts_str, 1, 4) /\ ts_str[5] = "-"
              THEN FieldEnd(ts_str, 6, {"-"}) ELSE 0
        de == IF me = 0 THEN 0 ELSE FieldEnd(ts_str, me + 2, {"T", "t"})
        he == IF de = 0 THEN 0 ELSE FieldEnd(ts_str, de + 2, {":"})
        ie == IF he = 0 THEN 0 ELSE FieldEnd(ts_str, he + 2, {":"})
        se == IF ie = 0 THEN 0 ELSE FieldEnd(ts_str, ie + 2, {"."})
    IN IF /\ se # 0
          /\ n - 1 >= se + 2 /\ n - 1 <= se + 7
          /\ AllDigits(ts_str, se + 2, n - 1)
          /\ ts_str[n] \in {"Z", "z"}
          /\ Natural(SubSeq(ts_str, 1, 4)) >= 1
          /\ DigitsIn(ts_str, 6, me, 1, 12)
          /\ \/ DigitsIn(ts_str, me + 2, de, 1, 31)
             \/ /\ de = me + 3 /\ ts_str[me + 2] = " "
                /\ DigitsIn(ts_str, de, de, 1, 9)
          /\ DayValue(ts_str, me + 2, de)
                 <= DaysInMonth(Natural(SubSeq(ts_str, 1, 4)), Natural(SubSeq(ts_str, 6, me)))
          /\ DigitsIn(ts_str, de + 2, he, 0, 23)
          /\ DigitsIn(ts_str, he + 2, ie, 0, 59)
          /\ DigitsIn(ts_str, ie + 2, se, 0, 59)
       THEN Some(SubSeq(ts_str, 1, 4)
                 \o <<"-">> \o TwoDigits(Natural(SubSeq(ts_str, 6, me)))
                 \o <<"-">> \o TwoDigits(DayValue(ts_str, me + 2, de))
                 \o <<"T">> \o TwoDigits(Natural(SubSeq(ts_str, de + 2, he)))
                 \o <<":">> \o TwoDigits(Natural(SubSeq(ts_str, he + 2, ie)))
                 \o <<":">> \o TwoDigits(Natural(SubSeq(ts_str, ie + 2, se)))
                 \o (IF Natural(SubSeq(ts_str, se + 2, n - 1)) = 0 THEN <<>>
                     ELSE <<".">> \o SubSeq(SubSeq(ts_str, se + 2, n - 1)
                                              \o <<"0", "0", "0", "0", "0">>, 1, 6))
                 \o <<"+", "0", "0", ":", "0", "0">>)
       ELSE None

---------------------------------------------------------------------------
(* The row-oriented (MySQL) parser of get_database_queries.                *)

TimePrefix == <<"#", " ", "T", "i", "m", "e", ":">>
QueryTimePrefix ==
    <<"#", " ", "Q", "u", "e", "r", "y", "_", "t", "i", "m", "e", ":">>
SelectWord == <<"s", "e", "l", "e", "c", "t">>
SetTimestampPrefix ==
    <<"S", "E", "T", " ", "t", "i", "m", "e", "s", "t", "a", "m", "p", "=">>
UsePrefix == <<"u", "s", "e", " ">>

\* a slow-query record; a key that is absent and a key that is None are both None
Entry(timestamp, query_time, lock_time, rows_sent, rows_examined, sql) ==
    [timestamp |-> timestamp, query_time |-> query_time, lock_time |-> lock_time,
     rows_sent |-> rows_sent, rows_examined |-> rows_examined, sql |-> sql]

\* current_entry = {} and the dict of Nones a `# Time:` line starts
EmptyEntry == Entry(None, None, None, None, None, None)

\* one match of (\w+): (\d+\.?\d*|\d+) that starts at i, if there is one
MetricAt(s, i) ==
    LET e == RunEnd(s, i, WordChars)
    IN IF /\ e >= i /\ e + 2 <= Len(s)
          /\ s[e + 1] = ":" /\ s[e + 2] = " "
          /\ NumberEnd(s, e + 3) >= e + 3
       THEN Some([metric |-> SubSeq(s, i, e),
                  value |-> SubSeq(s, e + 3, NumberEnd(s, e + 3)),
                  end |-> NumberEnd(s, e + 3)])
       ELSE None

\* re.findall(r'(\w+): (\d+\.?\d*|\d+)', s), searching from position i
RECURSIVE FindMetrics(_, _)
FindMetrics(s, i) ==
    IF i > Len(s) THEN <<>>
    ELSE IF MetricAt(s, i) # None
    THEN <<MetricAt(s, i)[1]>> \o FindMetrics(s, MetricAt(s, i)[1].end + 1)
    ELSE FindMetrics(s, i + 1)

\* the assignments of the loop `for metric, value in metrics`; `raised` when
\* int(value) raises ValueError
RECURSIVE ApplyMetrics(_, _)
ApplyMetrics(entry, metrics) ==
    IF metrics = <<>> THEN [raised |-> FALSE, entry |-> entry]
    ELSE LET m == Head(metrics)
             name == m.metric
         IN IF name = <<"Q", "u", "e", "r", "y", "_", "t", "i", "m", "e">>
            THEN ApplyMetrics([entry EXCEPT !.query_time = Some(Float(m.value))],
                              Tail(metrics))
            ELSE IF name = <<"L", "o", "c", "k", "_", "t", "i", "m", "e">>
            THEN ApplyMetrics([entry EXCEPT !.lock_time = Some(Float(m.value))],
                              Tail(metrics))
            ELSE IF name = <<"R", "o", "w", "s", "_", "s", "e", "n", "t">>
            THEN IF ~IsInteger(m.value) THEN [raised |-> TRUE, entry |-> entry]
                 ELSE ApplyMetrics([entry EXCEPT !.rows_sent = Some(Natural(m.value))],
                                   Tail(metrics))
            ELSE IF name = <<"R", "o", "w", "s", "_", "e", "x", "a", "m", "i", "n", "e", "d">>
            THEN IF ~IsInteger(m.value) THEN [raised |-> TRUE, entry |-> entry]
                 ELSE ApplyMetrics([entry EXCEPT !.rows_examined = Some(Natural(m.value))],
                                   Tail(metrics))
            ELSE ApplyMetrics(entry, Tail(metrics))

\* the parser's variables: the record in progress, the capture flag, the
\* statement lines gathered, the records emitted, and whether an exception
\* has left the loop
MySqlState(entry, capture, lines, entries, raised) ==
    [current_entry |-> entry, capture_sql |-> capture, sql_lines |-> lines,
     log_entries |-> entries, raised |-> raised]

MySqlStart == MySqlState(EmptyEntry, FALSE, <<>>, <<>>, FALSE)

\* a variant that takes every record in progress to have a query time
QueryTimeNotTested(entry) == TRUE

\* float truthiness: current_entry.get('query_time') is neither None nor 0.0
HasQueryTime(entry) == entry.query_time # None /\ entry.query_time[1] # Zero

\* a variant in which a timestamp that cannot be parsed ends the parse with an
\* exception
MySqlTimeLineStrict(st, line) ==
    LET ts == ParseTime(Strip(Replace(line, TimePrefix \o <<" ">>, <<>>)))
        fresh == [EmptyEntry EXCEPT !.timestamp = ts]
        norm == NormalizeMySql(Strip(Join(st.sql_lines, <<" ">>)))
    IN IF ts = None THEN [st EXCEPT !.raised = TRUE]
       ELSE IF HasQueryTime(st.current_entry) /\ st.sql_lines # <<>>
       THEN IF norm.raised
            THEN [st EXCEPT !.raised = TRUE]
            ELSE MySqlState(fresh, FALSE, <<>>,
                            Append(st.log_entries,
                                   [st.current_entry EXCEPT !.sql = Some(norm.sql)]),
                            FALSE)
       ELSE MySqlState(fresh, FALSE, <<>>, st.log_entries, FALSE)

\* the `# Time:` branch: the record in progress is finalised and appended if it
\* has a query time and statement lines, then a new record is started
MySqlTimeLine(st, line) ==
    LET ts == ParseTime(Strip(Replace(line, TimePrefix \o <<" ">>, <<>>)))
        fresh == [EmptyEntry EXCEPT !.timestamp = ts]
        norm == NormalizeMySql(Strip(Join(st.sql_lines, <<" ">>)))
    IN IF HasQueryTime(st.current_entry) /\ st.sql_lines # <<>>
       THEN IF norm.raised
            THEN [st EXCEPT !.raised = TRUE]
            ELSE MySqlState(fresh, FALSE, <<>>,
                            Append(st.log_entries,
                                   [st.current_entry EXCEPT !.sql = Some(norm.sql)]),
                            FALSE)
       ELSE MySqlState(fresh, FALSE, <<>>, st.log_entries, FALSE)

\* the `# Query_time:` branch
MySqlMetricsLine(st, line) ==
    LET applied == ApplyMetrics(st.current_entry,
                                FindMetrics(Replace(line, <<"#", " ">>, <<>>), 1))
    IN IF applied.raised THEN [st EXCEPT !.raised = TRUE]
       ELSE [st EXCEPT !.current_entry = applied.entry]

\* a variant in which a blank line, too, finalises the record in progress
MySqlStepBlankEmits(st, raw) ==
    LET line == Strip(raw)
    IN IF StartsWith(line, TimePrefix) \/ line = <<>> THEN MySqlTimeLine(st, line)
       ELSE IF StartsWith(line, QueryTimePrefix) THEN MySqlMetricsLine(st, line)
       ELSE IF StartsWith(line, <<"#">>) THEN st
       ELSE IF StartsWith(lower(line), SelectWord)
       THEN [st EXCEPT !.capture_sql = TRUE, !.sql_lines = Append(@, line)]
       ELSE IF st.capture_sql THEN [st EXCEPT !.sql_lines = Append(@, line)]
       ELSE st

\* a variant in which a blank line leaves the capture of a statement on
MySqlStepBlankKeeps(st, raw) ==
    LET line == Strip(raw)
    IN IF StartsWith(line, TimePrefix) THEN MySqlTimeLine(st, line)
       ELSE IF StartsWith(line, QueryTimePrefix) THEN MySqlMetricsLine(st, line)
       ELSE IF StartsWith(line, <<"#">>) \/ line = <<>> THEN st
       ELSE IF StartsWith(lower(line), SelectWord)
       THEN [st EXCEPT !.capture_sql = TRUE, !.sql_lines = Append(@, line)]
       ELSE IF st.capture_sql THEN [st EXCEPT !.sql_lines = Append(@, line)]
       ELSE st

\* the body of `for line in ''.join(log_data).split('\n')` for one line, with
\* the branches in the order of the code
MySqlStep(st, raw) ==
    LET line == Strip(raw)
    IN IF StartsWith(line, TimePrefix) THEN MySqlTimeLine(st, line)
       ELSE IF StartsWith(line, QueryTimePrefix) THEN MySqlMetricsLine(st, line)
       ELSE IF ~StartsWith(line, <<"#">>) /\ line # <<>>
       THEN IF StartsWith(lower(line), SelectWord)
            THEN [st EXCEPT !.capture_sql = TRUE, !.sql_lines = Append(@, line)]
            ELSE IF st.capture_sql
            THEN [st EXCEPT !.sql_lines = Append(@, line)]
            ELSE st
       ELSE IF StartsWith(line, SetTimestampPrefix) THEN st
       ELSE IF StartsWith(line, UsePrefix) THEN st
       ELSE IF line # <<>> /\ ~StartsWith(line, <<"#">>)
       THEN IF ~st.capture_sql /\ ~StartsWith(lower(line), SelectWord)
            THEN st
            ELSE [st EXCEPT !.capture_sql = TRUE, !.sql_lines = Append(@, line)]
       ELSE IF st.capture_sql /\ line = <<>>
       THEN [st EXCEPT !.capture_sql = FALSE]
       ELSE st

\* the whole loop over the lines
RECURSIVE MySqlLoop(_, _)
MySqlLoop(st, lines) ==
    IF lines = <<>> \/ st.raised THEN st
    ELSE MySqlLoop(MySqlStep(st, Head(lines)), Tail(lines))

\* the records of a MySQL slow-query log text
ParseMySql(text) == MySqlLoop(MySqlStart, Split(text, <<"\n">>))

---------------------------------------------------------------------------
(* The block-oriented (PostgreSQL) parser of get_database_queries.         *)

\* timestamp_pattern.match(line): ^\d{4}-\d{2}-\d{2} \d{2}:\d{2}:\d{2} UTC:
TimestampMatch(line) ==
    /\ Len(line) >= 24
    /\ AllDigits(line, 1, 4) /\ line[5] = "-"
    /\ AllDigits(line, 6, 7) /\ line[8] = "-"
    /\ AllDigits(line, 9, 10) /\ line[11] = " "
    /\ AllDigits(line, 12, 13) /\ line[14] = ":"
    /\ AllDigits(line, 15, 16) /\ line[17] = ":"
    /\ AllDigits(line, 18, 19)
    /\ SubSeq(line, 20, 24) = <<" ", "U", "T", "C", ":">>

DurationPrefix ==
    <<"L", "O", "G", ":", " ", " ", "d", "u", "r", "a", "t", "i", "o", "n", ":", " ">>
StatementPrefix ==
    <<" ", "m", "s", " ", " ", "s", "t", "a", "t", "e", "m", "e", "n", "t", ":", " ">>

\* the match of LOG:  duration: (\d+\.?\d*) ms  statement: (.*) that starts at i,
\* if there is one; with DOTALL the statement runs to the end of the block.
\* The number may give back its last digits to nothing that helps: what follows
\* it is a space.
DurationAt(entry, i) ==
    LET d == i + Len(DurationPrefix)
        e == NumberEnd(entry, d)
    IN IF /\ SubSeq(entry, i, d - 1) = DurationPrefix
          /\ e >= d
          /\ StartsWith(From(entry, e + 1), StatementPrefix)
       THEN Some([duration |-> SubSeq(entry, d, e),
                  sql |-> From(entry, e + Len(StatementPrefix) + 1)])
       ELSE None

\* postgres_log_regex.search(entry): the leftmost match
RECURSIVE DurationSearch(_, _)
DurationSearch(entry, i) ==
    LET at == Find(entry, DurationPrefix, i)
    IN IF at = 0 THEN None
       ELSE IF DurationAt(entry, at) # None THEN DurationAt(entry, at)
       ELSE DurationSearch(entry, at + 1)

PostgresState(block, entries, raised) ==
    [buffer |-> block, log_entries |-> entries, raised |-> raised]

PostgresStart(entries) == PostgresState(<<>>, entries, FALSE)

\* a block is turned into a record when it holds a duration and a statement;
\* the duration is kept as the text that was matched
PostgresEmit(st) ==
    LET match == DurationSearch(Join(st.buffer, <<"\n">>), 1)
        norm == NormalizePostgres(match[1].sql)
    IN IF match = None THEN st
       ELSE IF norm.raised THEN [st EXCEPT !.raised = TRUE]
       ELSE [st EXCEPT !.log_entries =
                Append(@, Entry(None, Some(match[1].duration), None, None, None,
                                Some(norm.sql)))]

\* the body of `for line in full_log.split('\n')` for one line
PostgresStep(st, raw) ==
    LET line == Strip(raw)
    IN IF TimestampMatch(line)
       THEN IF st.buffer # <<>>
            THEN [PostgresEmit(st) EXCEPT !.buffer =
                     IF PostgresEmit(st).raised THEN st.buffer ELSE <<line>>]
            ELSE [st EXCEPT !.buffer = <<line>>]
       ELSE IF st.buffer # <<>>
       THEN [st EXCEPT !.buffer = Append(@, line)]
       ELSE st

\* a variant that leaves the last block of a file unprocessed
PostgresFlushNothing(st) == st

\* `# Process remaining buffer`
PostgresFlush(st) ==
    IF st.buffer # <<>> THEN PostgresEmit(st) ELSE st

RECURSIVE PostgresLoop(_, _)
PostgresLoop(st, lines) ==
    IF st.raised THEN st
    ELSE IF lines = <<>> THEN PostgresFlush(st)
    ELSE PostgresLoop(PostgresStep(st, Head(lines)), Tail(lines))

\* the records of one PostgreSQL log file, added to those of the files before it
ParsePostgres(entries, text) ==
    PostgresLoop(PostgresStart(entries), Split(text, <<"\n">>))

---------------------------------------------------------------------------
(* Ranking and the result of get_database_queries.                         *)

\* x['query_time'] < y['query_time']: floats for MySQL, the matched texts for
\* PostgreSQL
KeyBefore(family, x, y) ==
    IF family = "mysql" THEN FloatBefore(x.query_time[1], y.query_time[1])
    ELSE TextBefore(x.query_time[1], y.query_time[1])

\* x goes behind every record whose key is not smaller than its own
RECURSIVE InsertDescending(_, _, _)
InsertDescending(family, sorted, x) ==
    IF sorted = <<>> THEN <<x>>
    ELSE IF KeyBefore(family, Head(sorted), x) THEN <<x>> \o sorted
    ELSE <<Head(sorted)>> \o InsertDescending(family, Tail(sorted), x)

\* log_entries.sort(key=lambda x: x['query_time'], reverse=True): stable
RECURSIVE SortDescending(_, _)
SortDescending(family, entries) ==
    IF entries = <<>> THEN <<>>
    ELSE InsertDescending(family,
                          SortDescending(family, SubSeq(entries, 1, Len(entries) - 1)),
                          entries[Len(entries)])

\* the sort followed by log_entries[:50]
Ranked(family, entries) ==
    SubSeq(SortDescending(family, entries), 1, Min(Len(entries), 50))

\* the success dictionary; the count is taken after the cut to 50
QueriesSuccess(family, entries) ==
    LET ranked == Ranked(family, entries)
    IN [status |-> "success",
        total_slow_queries |-> Len(ranked),
        top_5_queries |-> SubSeq(ranked, 1, Min(Len(ranked), 5))]

QueriesFailure == [status |-> "error", total_slow_queries |-> 0, top_5_queries |-> <<>>]

---------------------------------------------------------------------------
(* The state machines.  No method suspends between its first and its last  *)
(* statement (every upstream call is a blocking call made from the one     *)
(* event loop), so an invocation is one step.  `last` holds what the       *)
(* invocation of the latest step did, until the caller has taken the       *)
(* result; invocations start when the process is idle.                     *)

\* the seconds the clock may advance by in one step
TickSteps == {150, 299}

NoResult == [kind |-> "none", status |-> "", message |-> "", data |-> <<>>]
NoResolution ==
    [made |-> FALSE, raised |-> FALSE, hit |-> FALSE, ret |-> None, llm |-> None]
Idle ==
    [op |-> "idle", name |-> <<>>, result |-> NoResult, calls |-> <<>>,
     resolution |-> NoResolution, retry |-> FALSE, engine |-> None,
     parsed |-> FALSE]

ResolutionOf(r) ==
    [made |-> TRUE, raised |-> r.raised, hit |-> r.hit, ret |-> r.ret, llm |-> r.llm]

\* the effect of the resolution r of `name` on the client's state
Resolved(name, r) ==
    /\ rds_instances_cache' = r.cache
    /\ name_matching_cache' = r.names
    /\ unresolved' = IF r.raised THEN unresolved
                     ELSE IF r.ret = None THEN unresolved \cup {name}
                     ELSE unresolved \ {name}
    /\ UNCHANGED now

\* the observation of a tool invocation: its resolution r and its outcome
Observed(op, name, r, out) ==
    last' = [op |-> op, name |-> name, result |-> out.result, calls |-> out.calls,
             resolution |-> ResolutionOf(r), retry |-> name \in unresolved,
             engine |-> out.engine, parsed |-> out.parsed]

\* no parser runs
ParserOff ==
    /\ p_family = "off"
    /\ p_pc = "off"
    /\ p_line = None
    /\ p_read = 0
    /\ current_entry = EmptyEntry
    /\ capture_sql = FALSE
    /\ sql_lines = <<>>
    /\ buffer = <<>>
    /\ log_entries = <<>>
    /\ p_result = None

\* no normalisation is looked at on its own
NormalizerOff ==
    /\ n_family = "off"
    /\ n_sql = <<>>
    /\ n_pc = "off"
    /\ n_result = None

\* no download loop is looked at on its own
FetchOff ==
    /\ marker = "0"
    /\ log_data = <<>>
    /\ f_pc = "off"
    /\ f_requests = <<>>
    /\ f_responses = <<>>
    /\ f_text = None

NoInvocation ==
    [op |-> "none", name |-> <<>>, pc |-> "none", at |-> 0, ret |-> None,
     upstream |-> 0, overlapped |-> FALSE]

\* no invocations of the client's methods are looked at as tasks
OverlapOff ==
    /\ o_inv = [i \in 1..MaxInvocations |-> NoInvocation]
    /\ o_writes = <<>>
    /\ o_fetched = {}

ListingOff ==
    /\ l_now = 0
    /\ l_period = 0
    /\ l_threshold = 0
    /\ describe_marker = None
    /\ log_files = <<>>
    /\ l_pc = "off"
    /\ l_requests = <<>>
    /\ l_responses = <<>>
    /\ l_downloads = <<>>

PeriodOff ==
    /\ q_text = <<>>
    /\ q_runs = <<>>

Init ==
    /\ now = 0
    /\ rds_instances_cache = EmptyInstancesCache
    /\ name_matching_cache = EmptyNameCache
    /\ unresolved = {}
    /\ last = Idle
    /\ m_target = <<>>
    /\ m_candidates = <<>>
    /\ m_result = None
    /\ m_pc = "off"
    /\ ParserOff
    /\ NormalizerOff
    /\ FetchOff
    /\ OverlapOff
    /\ PeriodOff
    /\ ListingOff

\* time passes while the process is idle
Tick ==
    /\ last = Idle
    /\ \E dt \in TickSteps : now + dt <= MaxTime /\ now' = now + dt
    /\ UNCHANGED <<rds_instances_cache, name_matching_cache, unresolved, last>>
    /\ UNCHANGED <<matchVars, restVars>>

\* the caller takes the result of the invocation; the process is idle again
Deliver ==
    /\ last # Idle
    /\ last' = Idle
    /\ UNCHANGED <<now, rds_instances_cache, name_matching_cache, unresolved>>
    /\ UNCHANGED <<matchVars, restVars>>

\* a direct call of RDSClient.get_available_rds_instances
ListInstances ==
    /\ last = Idle
    /\ \E d \in DirectoryResponses :
          LET o == get_available_rds_instances(rds_instances_cache, now, d)
          IN /\ rds_instances_cache' = o.cache
             /\ last' = [op |-> "get_available_rds_instances", name |-> <<>>,
                         result |-> Return(o.ret.status, "", <<o.ret>>),
                         calls |-> o.calls, resolution |-> NoResolution,
                         retry |-> FALSE, engine |-> None, parsed |-> FALSE]
    /\ UNCHANGED <<now, name_matching_cache, unresolved>>
    /\ UNCHANGED <<matchVars, restVars>>

\* a direct call of RDSClient.find_matching_rds_instances
Resolve ==
    /\ last = Idle
    /\ \E name \in Spellings : \E r \in Resolutions(name) :
          /\ Resolved(name, r)
          /\ Observed("find_matching_rds_instances", name, r,
                      Outcome(IF r.raised THEN Raise("KeyError")
                              ELSE Return("", "", r.ret),
                              r.calls, None, FALSE))
    /\ UNCHANGED <<matchVars, restVars>>

GetDbInfo ==
    /\ last = Idle
    /\ \E name \in RawNames : \E r \in Resolutions(name) :
          \E out \in {get_db_info(r, d) : d \in DescribeResponses} :
              Resolved(name, r) /\ Observed("get_db_info", name, r, out)
    /\ UNCHANGED <<matchVars, restVars>>

\* the get_metric_data call that raises, 0 for none
MetricFailures == 0..NumMetrics

GetDatabaseMetrics ==
    /\ last = Idle
    /\ \E name \in RawNames : \E r \in Resolutions(name) :
          \E out \in {get_database_metrics(r, f, e) :
                          f \in MetricFailures, e \in BOOLEAN} :
              Resolved(name, r) /\ Observed("get_database_metrics", name, r, out)
    /\ UNCHANGED <<matchVars, restVars>>

\* the inputs of get_database_queries that its code reads: no log is retrieved
\* unless the describe call names an engine
QueryInputs ==
    UNION {{[desc |-> d, fetch |-> f] :
                f \in IF d.ok /\ d.engine # None THEN FetchesOf(d.engine[1])
                      ELSE {NoFetch}} :
           d \in {x \in DescribeResponses : x.full \/ ~x.ok}}

\* every outcome of get_database_queries(name, period_minutes) after the
\* resolution r; no upstream answer is read when the resolution gave no
\* identifier or the period takes the threshold out of the calendar
QueriesOutcomes(r, period_minutes) ==
    IF r.raised \/ r.ret = None \/ ~ThresholdInRange(period_minutes)
    THEN {get_database_queries(r, period_minutes, d, NoFetch) :
              d \in {x \in DescribeResponses : ~x.ok}}
    ELSE {get_database_queries(r, period_minutes, i.desc, i.fetch) : i \in QueryInputs}

\* period_minutes is the default, or one of some 3800 years
GetDatabaseQueries ==
    /\ last = Idle
    /\ \E name \in RawNames : \E r \in Resolutions(name) :
          \E period_minutes \in {60, 2000000000} :
              \E out \in QueriesOutcomes(r, period_minutes) :
                  Resolved(name, r) /\ Observed("get_database_queries", name, r, out)
    /\ UNCHANGED <<matchVars, restVars>>

GetTopRdsLoad ==
    /\ last = Idle
    /\ \E name \in RawNames : \E r \in Resolutions(name) :
          \E out \in {get_top_rds_load(r, minutes, d) :
                          minutes \in QueryPeriods, d \in DescribeResponses} :
              Resolved(name, r) /\ Observed("get_top_rds_load", name, r, out)
    /\ UNCHANGED <<matchVars, restVars>>

\* the server: the four tools, called one after the other, with the clock
Next ==
    \/ Tick
    \/ GetDbInfo
    \/ GetDatabaseMetrics
    \/ GetDatabaseQueries
    \/ GetTopRdsLoad
    \/ Deliver

Spec == Init /\ [][Next]_vars

\* the client alone, with the clock: its two cached operations
NextClient ==
    \/ Tick
    \/ ListInstances
    \/ Resolve
    \/ Deliver

SpecClient == Init /\ [][NextClient]_vars

\* the matcher alone: one call on every target and candidates list of the bounds
InitMatcher ==
    /\ InitMatch
    /\ now = 0
    /\ rds_instances_cache = EmptyInstancesCache
    /\ name_matching_cache = EmptyNameCache
    /\ unresolved = {}
    /\ last = Idle
    /\ ParserOff
    /\ NormalizerOff
    /\ FetchOff
    /\ OverlapOff
    /\ PeriodOff
    /\ ListingOff

NextMatcher == MatchCall /\ UNCHANGED <<clientVars, restVars>>

SpecMatcher == InitMatcher /\ [][NextMatcher]_vars

---------------------------------------------------------------------------
(* The parsers as state machines: a step reads one line of the log text,   *)
(* the text ends, and the records are ranked.  The lines are those of the  *)
(* repository's tests and their variations.                                *)

TimeLine ==
    <<"#", " ", "T", "i", "m", "e", ":", " ", "2", "0", "2", "4", "-", "0",
      "1", "-", "0", "1", "T", "1", "0", ":", "0", "0", ":", "0", "0", ".",
      "0", "0", "0", "Z">>

BareTimeLine ==
    <<"#", " ", "T", "i", "m", "e", ":">>

MetricsLine ==
    <<"#", " ", "Q", "u", "e", "r", "y", "_", "t", "i", "m", "e", ":", " ",
      "1", "0", ".", "5", " ", " ", "L", "o", "c", "k", "_", "t", "i", "m",
      "e", ":", " ", "0", ".", "1", " ", " ", "R", "o", "w", "s", "_", "s",
      "e", "n", "t", ":", " ", "1", "0", "0", " ", " ", "R", "o", "w", "s",
      "_", "e", "x", "a", "m", "i", "n", "e", "d", ":", " ", "1", "0", "0",
      "0">>

QuickLine ==
    <<"#", " ", "Q", "u", "e", "r", "y", "_", "t", "i", "m", "e", ":", " ",
      "2">>

ZeroLine ==
    <<"#", " ", "Q", "u", "e", "r", "y", "_", "t", "i", "m", "e", ":", " ",
      "0">>

BadRowsLine ==
    <<"#", " ", "Q", "u", "e", "r", "y", "_", "t", "i", "m", "e", ":", " ",
      "3", " ", "R", "o", "w", "s", "_", "s", "e", "n", "t", ":", " ", "1",
      ".", "5">>

SelectLine ==
    <<"S", "E", "L", "E", "C", "T", " ", "*", " ", "F", "R", "O", "M", " ",
      "u", "s", "e", "r", "s", " ", "W", "H", "E", "R", "E", " ", "s", "t",
      "a", "t", "u", "s", " ", "=", " ", "'", "a", "c", "t", "i", "v", "e",
      "'", ";">>

FromLine ==
    <<" ", " ", "F", "R", "O", "M", " ", "t">>

BlankLine ==
    <<>>

SetTimestampLine ==
    <<"S", "E", "T", " ", "t", "i", "m", "e", "s", "t", "a", "m", "p", "=",
      "1", ";">>

Took5Line ==
    <<"2", "0", "2", "4", "-", "0", "1", "-", "0", "1", " ", "1", "0", ":",
      "0", "0", ":", "0", "0", " ", "U", "T", "C", ":", "L", "O", "G", ":",
      " ", " ", "d", "u", "r", "a", "t", "i", "o", "n", ":", " ", "5", " ",
      "m", "s", " ", " ", "s", "t", "a", "t", "e", "m", "e", "n", "t", ":",
      " ", "S", "E", "L", "E", "C", "T", " ", "1">>

Took20Line ==
    <<"2", "0", "2", "4", "-", "0", "1", "-", "0", "1", " ", "1", "0", ":",
      "0", "0", ":", "0", "0", " ", "U", "T", "C", ":", "L", "O", "G", ":",
      " ", " ", "d", "u", "r", "a", "t", "i", "o", "n", ":", " ", "2", "0",
      " ", "m", "s", " ", " ", "s", "t", "a", "t", "e", "m", "e", "n", "t",
      ":", " ", "S", "E", "L", "E", "C", "T", " ", "2">>

Took50Line ==
    <<"2", "0", "2", "4", "-", "0", "1", "-", "0", "1", " ", "1", "0", ":",
      "0", "0", ":", "0", "0", " ", "U", "T", "C", ":", "L", "O", "G", ":",
      " ", " ", "d", "u", "r", "a", "t", "i", "o", "n", ":", " ", "5", "0",
      ".", "5", " ", "m", "s", " ", " ", "s", "t", "a", "t", "e", "m", "e",
      "n", "t", ":", " ", "S", "E", "L", "E", "C", "T", " ", "3">>

ErrorLine ==
    <<"2", "0", "2", "4", "-", "0", "1", "-", "0", "1", " ", "1", "0", ":",
      "0", "0", ":", "0", "0", " ", "U", "T", "C", ":", "E", "R", "R", "O",
      "R", ":", " ", " ", "x">>

OpenListLine ==
    <<"2", "0", "2", "4", "-", "0", "1", "-", "0", "1", " ", "1", "0", ":",
      "0", "0", ":", "0", "0", " ", "U", "T", "C", ":", "L", "O", "G", ":",
      " ", " ", "d", "u", "r", "a", "t", "i", "o", "n", ":", " ", "1", " ",
      "m", "s", " ", " ", "s", "t", "a", "t", "e", "m", "e", "n", "t", ":",
      " ", "a", " ", "I", "N", " ", "(", "1", ",", "2", ",", "3", ",", "4",
      ",", "5", ",", "6">>

UseLine ==
    <<"u", "s", "e", " ", "d", "b", ";">>

MySqlLines ==
    {TimeLine, BareTimeLine, MetricsLine, QuickLine, ZeroLine, BadRowsLine, SelectLine,
     FromLine, BlankLine, SetTimestampLine, UseLine}

PostgresLines ==
    {Took5Line, Took20Line, Took50Line, ErrorLine, OpenListLine, FromLine, BlankLine}

\* what log_entries may hold when the parse of a file starts: nothing, or, in
\* the PostgreSQL loop over the files, the records of the files before it
EarlierRecords(family) ==
    IF family = "postgres"
    THEN {<<>>, <<Entry(None, Some(<<"9">>), None, None, None, Some(<<"x">>))>>}
    ELSE {<<>>}

InitParser ==
    /\ p_family \in {"mysql", "postgres"}
    /\ p_pc = "lines"
    /\ p_line = None
    /\ p_read = 0
    /\ current_entry = EmptyEntry
    /\ capture_sql = FALSE
    /\ sql_lines = <<>>
    /\ buffer = <<>>
    /\ log_entries \in EarlierRecords(p_family)
    /\ p_result = None

\* the except clause of get_database_queries ends the invocation
ParserRaised ==
    /\ p_pc' = "done"
    /\ p_result' = Some(QueriesFailure)

\* one iteration of the MySQL loop over the lines
ReadMySqlLine ==
    /\ p_pc = "lines" /\ p_family = "mysql" /\ p_read < MaxLines
    /\ \E line \in MySqlLines :
          LET st == MySqlStep(MySqlState(current_entry, capture_sql, sql_lines,
                                         log_entries, FALSE), line)
          IN /\ p_line' = Some(line)
             /\ current_entry' = st.current_entry
             /\ capture_sql' = st.capture_sql
             /\ sql_lines' = st.sql_lines
             /\ log_entries' = st.log_entries
             /\ IF st.raised THEN ParserRaised ELSE UNCHANGED <<p_pc, p_result>>
    /\ p_read' = p_read + 1
    /\ UNCHANGED <<p_family, buffer>>

\* one iteration of the PostgreSQL loop over the lines of a file
ReadPostgresLine ==
    /\ p_pc = "lines" /\ p_family = "postgres" /\ p_read < MaxLines
    /\ \E line \in PostgresLines :
          LET st == PostgresStep(PostgresState(buffer, log_entries, FALSE), line)
          IN /\ p_line' = Some(line)
             /\ buffer' = st.buffer
             /\ log_entries' = st.log_entries
             /\ IF st.raised THEN ParserRaised ELSE UNCHANGED <<p_pc, p_result>>
    /\ p_read' = p_read + 1
    /\ UNCHANGED <<p_family, current_entry, capture_sql, sql_lines>>

\* the text has no more lines (a text has at least one line): the MySQL loop
\* just ends, the PostgreSQL parser processes the remaining buffer
EndOfInput ==
    /\ p_pc = "lines" /\ p_read >= 1
    /\ LET st == IF p_family = "postgres"
                 THEN PostgresFlush(PostgresState(buffer, log_entries, FALSE))
                 ELSE PostgresState(buffer, log_entries, FALSE)
       IN /\ log_entries' = st.log_entries
          /\ IF st.raised THEN ParserRaised
             ELSE p_pc' = "rank" /\ UNCHANGED p_result
    /\ p_line' = None
    /\ UNCHANGED <<p_family, p_read, current_entry, capture_sql, sql_lines, buffer>>

\* the sort, the cut to 50 and the result dictionary
Rank ==
    /\ p_pc = "rank"
    /\ p_result' = Some(QueriesSuccess(p_family, log_entries))
    /\ log_entries' = Ranked(p_family, log_entries)
    /\ p_pc' = "done"
    /\ UNCHANGED <<p_family, p_line, p_read, current_entry, capture_sql, sql_lines, buffer>>

NextParser ==
    /\ \/ ReadMySqlLine
       \/ ReadPostgresLine
       \/ EndOfInput
       \/ Rank
    /\ UNCHANGED <<clientVars, matchVars, normVars, fetchVars, overlapVars, listVars, periodVars>>

\* the rest of the program is idle while a parser is looked at on its own
RestIdle ==
    /\ now = 0
    /\ rds_instances_cache = EmptyInstancesCache
    /\ name_matching_cache = EmptyNameCache
    /\ unresolved = {}
    /\ last = Idle
    /\ m_target = <<>>
    /\ m_candidates = <<>>
    /\ m_result = None
    /\ m_pc = "off"

\* the initial states of SpecParser: everything else is idle
StartParser ==
    /\ InitParser
    /\ NormalizerOff
    /\ FetchOff
    /\ OverlapOff
    /\ PeriodOff
    /\ ListingOff
    /\ RestIdle

SpecParser == StartParser /\ [][NextParser]_vars

\* str(n) for a natural number
RECURSIVE DecimalText(_)
DecimalText(n) ==
    IF n < 10 THEN <<Digits10[n + 1]>>
    ELSE DecimalText(n \div 10) \o <<Digits10[(n % 10) + 1]>>

\* the durations of the spec's ranking example
DurationTexts == {<<"1">>, <<"5">>, <<"2", "0">>, <<"5", "0">>}

\* the record a parser collects for a statement that took `duration`: a float
\* from the MySQL parser, the matched text from the PostgreSQL parser
Collected(family, duration) ==
    Entry(None, Some(IF family = "mysql" THEN Float(duration) ELSE duration),
          None, None, None, Some(<<"S", "E", "L", "E", "C", "T", " ", "1">>))

\* the lists of records handed to the ranking: every list of up to MaxRecords
\* records of these durations, and long lists with the durations 1, 2, 3, ...
RecordLists(family) ==
    UNION {[1..n -> {Collected(family, d) : d \in DurationTexts}] : n \in 0..MaxRecords}
    \cup {[i \in 1..n |-> Collected(family, DecimalText(i))] : n \in 49..ManyRecords}

\* the ranking alone, on every list of records of the bounds
InitRank ==
    /\ p_family \in {"mysql", "postgres"}
    /\ p_pc = "rank"
    /\ p_line = None
    /\ p_read = 0
    /\ current_entry = EmptyEntry
    /\ capture_sql = FALSE
    /\ sql_lines = <<>>
    /\ buffer = <<>>
    /\ log_entries \in RecordLists(p_family)
    /\ p_result = None

NextRank == Rank /\ UNCHANGED <<clientVars, matchVars, normVars, fetchVars, overlapVars, listVars, periodVars>>

\* the initial states of SpecRank: everything else is idle
StartRank ==
    /\ InitRank
    /\ NormalizerOff
    /\ FetchOff
    /\ OverlapOff
    /\ PeriodOff
    /\ ListingOff
    /\ RestIdle

SpecRank == StartRank /\ [][NextRank]_vars

\* the text before the first IN clause of the statements given to the normaliser
SelectBefore ==
    <<"s", "e", "l", "e", "c", "t", " ", "a", " ", "W", "H", "E", "R", "E",
      " ", "b", " ">>

LowerInKeyword ==
    <<"i", "n", " ", "(">>

PlainTrailer ==
    <<" ", "A", "N", "D", " ", "c">>

SecondClause ==
    <<" ", "A", "N", "D", " ", "d", " ", "I", "N", " ", "(", "8", ",", "9",
      ")", " ", "e">>

\* the value list 1,2,...,k
ValueList(k) == Join([i \in 1..k |-> DecimalText(i)], <<",">>)

\* s filled up with the letter x to n characters
Padded(s, n) == s \o [i \in 1..(n - Len(s)) |-> "x"]

\* statements with one IN clause of up to MaxValues values, in upper or lower
\* case, closed or not, alone or followed by more text or by a second clause;
\* as they are, and filled up to the lengths around the truncation limit
Statements ==
    LET short == {SelectBefore \o kw \o ValueList(k) \o close \o trailer :
                      kw \in {InKeyword, LowerInKeyword}, k \in 0..MaxValues,
                      close \in {<<>>, <<")">>},
                      trailer \in {<<>>, PlainTrailer, SecondClause}}
    IN short \cup {Padded(st, n) : st \in short,
                       n \in {MaxSqlLen - 1, MaxSqlLen, MaxSqlLen + 1, LongLen}}

InitNormalize ==
    /\ n_family \in {"mysql", "postgres"}
    /\ n_sql \in Statements
    /\ n_pc = "call"
    /\ n_result = None

\* the normalisation of a statement, as the parser of the family has it
Normalize ==
    /\ n_pc = "call"
    /\ n_result' = Some(IF n_family = "mysql" THEN NormalizeMySql(n_sql)
                        ELSE NormalizePostgres(n_sql))
    /\ n_pc' = "done"
    /\ UNCHANGED <<n_family, n_sql>>

NextNormalize == Normalize /\ UNCHANGED <<clientVars, matchVars, parserVars, fetchVars, overlapVars, listVars, periodVars>>

\* the initial states of SpecNormalize: everything else is idle
StartNormalize ==
    /\ InitNormalize
    /\ ParserOff
    /\ FetchOff
    /\ OverlapOff
    /\ PeriodOff
    /\ ListingOff
    /\ RestIdle

SpecNormalize == StartNormalize /\ [][NextNormalize]_vars

---------------------------------------------------------------------------
(* The download loop of one log file, request by request.                  *)

\* the texts a page may carry
PageTexts == {<<>>, <<"a", "\n">>, <<"b">>}

\* the cursors a response may carry
Cursors == {"0", "m1", "m2"}

\* a response of download_db_log_file_portion: each of its keys may be missing
PortionResponses ==
    [raised : {FALSE}, LogFileData : {None} \cup {Some(t) : t \in PageTexts},
     Marker : {None} \cup {Some(c) : c \in Cursors},
     AdditionalDataPending : {None, Some(TRUE), Some(FALSE)}]

\* the call raises
PortionFailure ==
    [raised |-> TRUE, LogFileData |-> None, Marker |-> None,
     AdditionalDataPending |-> None]

\* a variant that does not read the cursor of the response
MarkerIgnored(response) == "0"

\* response.get('Marker', '0')
MarkerOf(response) ==
    IF response.Marker = None THEN "0" ELSE response.Marker[1]

\* response.get('LogFileData', '')
DataOf(response) ==
    IF response.LogFileData = None THEN <<>> ELSE response.LogFileData[1]

\* a variant that takes every response to report more data
PendingAlways(response) == TRUE

\* a variant in which a response without the flag counts as reporting more data
PendingUnlessDenied(response) ==
    response.AdditionalDataPending = None \/ response.AdditionalDataPending[1]

\* response.get('AdditionalDataPending', False)
PendingOf(response) ==
    response.AdditionalDataPending # None /\ response.AdditionalDataPending[1]

\* marker = '0' and log_data = [] before the loop
InitFetch ==
    /\ marker = "0"
    /\ log_data = <<>>
    /\ f_pc = "request"
    /\ f_requests = <<>>
    /\ f_responses = <<>>
    /\ f_text = None

\* one iteration of `while True`: the request, and what is done with the
\* response; the iteration that breaks goes on to join the pages
DownloadPortion ==
    /\ f_pc = "request"
    /\ Len(f_requests) < MaxRequests
    /\ f_requests' = Append(f_requests, [NumberOfLines |-> 1000, Marker |-> marker])
    /\ \E response \in PortionResponses \cup {PortionFailure} :
          IF response.raised
          THEN /\ f_pc' = "failed"
               /\ UNCHANGED <<marker, log_data, f_responses, f_text>>
          ELSE /\ f_responses' = Append(f_responses, response)
               /\ log_data' = Append(log_data, DataOf(response))
               /\ marker' = MarkerOf(response)
               /\ IF PendingOf(response)
                  THEN UNCHANGED <<f_pc, f_text>>
                  ELSE /\ f_pc' = "done"
                       /\ f_text' = Some(Join(log_data', <<>>))

NextFetch == DownloadPortion /\ UNCHANGED <<clientVars, matchVars, parserVars, normVars, overlapVars, listVars, periodVars>>

\* the initial states of SpecFetch: everything else is idle
StartFetch ==
    /\ InitFetch
    /\ ParserOff
    /\ NormalizerOff
    /\ OverlapOff
    /\ PeriodOff
    /\ ListingOff
    /\ RestIdle

SpecFetch == StartFetch /\ [][NextFetch]_vars

\* the loop is sequential code of one invocation and each request is a blocking
\* call that returns or raises: the next iteration is always taken
SpecFetchLive == StartFetch /\ [][NextFetch]_vars /\ WF_vars(NextFetch)

---------------------------------------------------------------------------
(* Overlapping invocations of the client's methods.  The server runs each  *)
(* invocation as a task of one event loop.  A task gives way to another    *)
(* only where it suspends; the awaits of find_matching_rds_instances are   *)
(* on coroutines that make blocking calls (describe_db_instances,          *)
(* completion) and never suspend, so the body of an invocation runs in one *)
(* piece, after the invocations that were called before it or before       *)
(* them, in the order the loop picks.                                      *)

InFlight == {i \in DOMAIN o_inv : o_inv[i].pc = "called"}

\* a request arrives while others may be waiting to run
CallMethod(i) ==
    /\ o_inv[i].pc = "none"
    /\ \A j \in 1..(i - 1) : o_inv[j].pc # "none"
    /\ \E op \in {"get_available_rds_instances", "find_matching_rds_instances"} :
          \E name \in IF op = "find_matching_rds_instances" THEN RawNames ELSE {<<>>} :
              o_inv' = [j \in DOMAIN o_inv |->
                           IF j = i
                           THEN [NoInvocation EXCEPT !.op = op, !.name = name,
                                                     !.pc = "called",
                                                     !.overlapped = InFlight # {}]
                           ELSE IF j \in InFlight
                           THEN [o_inv[j] EXCEPT !.overlapped = TRUE]
                           ELSE o_inv[j]]
    /\ UNCHANGED <<o_writes, o_fetched>>
    /\ UNCHANGED <<clientVars, matchVars, parserVars, normVars, fetchVars, listVars, periodVars>>

\* the snapshot a successful describe_db_instances call at time t produces
Snapshot(resp, t) == [data |-> FormattedResponse(resp.ids), at |-> t]

\* the snapshots known after a method made the calls `calls`, the directory
\* answering resp
Fetched(calls, resp) ==
    IF \E k \in DOMAIN calls : calls[k].api = "describe_db_instances" /\ calls[k].ok
    THEN o_fetched \cup {Snapshot(resp, now)}
    ELSE o_fetched

\* the body of an invocation of get_available_rds_instances runs
RunListInstances(i) ==
    /\ o_inv[i].pc = "called"
    /\ o_inv[i].op = "get_available_rds_instances"
    /\ \E d \in DirectoryResponses :
          LET o == get_available_rds_instances(rds_instances_cache, now, d)
          IN /\ rds_instances_cache' = o.cache
             /\ o_inv' = [o_inv EXCEPT ![i].pc = "returned", ![i].at = now,
                                       ![i].ret = Some(o.ret),
                                       ![i].upstream = Len(o.calls)]
             /\ o_fetched' = Fetched(o.calls, d)
    /\ UNCHANGED <<now, name_matching_cache, unresolved, last, o_writes>>
    /\ UNCHANGED <<matchVars, parserVars, normVars, fetchVars, listVars, periodVars>>

\* the body of an invocation of find_matching_rds_instances runs; it inserts
\* into the name cache when the inference service named an identifier
RunResolve(i) ==
    /\ o_inv[i].pc = "called"
    /\ o_inv[i].op = "find_matching_rds_instances"
    /\ \E d \in DirectoryResponses : \E l \in LLMResponses :
          LET r == find_matching_rds_instances(o_inv[i].name, name_matching_cache,
                                               rds_instances_cache, now, d, l)
          IN /\ rds_instances_cache' = r.cache
             /\ name_matching_cache' = r.names
             /\ o_inv' = [o_inv EXCEPT ![i].pc = "returned", ![i].at = now,
                                       ![i].ret = r.ret, ![i].upstream = Len(r.calls)]
             /\ o_fetched' = Fetched(r.calls, d)
             /\ o_writes' = IF r.llm # None /\ r.llm[1].kind = "id"
                            THEN Append(o_writes, [key |-> o_inv[i].name,
                                                   id |-> r.llm[1].value, by |-> i])
                            ELSE o_writes
    /\ UNCHANGED <<now, unresolved, last>>
    /\ UNCHANGED <<matchVars, parserVars, normVars, fetchVars, listVars, periodVars>>

\* time passes while tasks wait: a snapshot's time to live
Wait ==
    /\ now + cache_ttl <= MaxTime
    /\ now' = now + cache_ttl
    /\ UNCHANGED <<rds_instances_cache, name_matching_cache, unresolved, last>>
    /\ UNCHANGED <<matchVars, restVars>>

NextOverlap ==
    \/ Wait
    \/ \E i \in 1..MaxInvocations : CallMethod(i)
    \/ \E i \in 1..MaxInvocations : RunListInstances(i)
    \/ \E i \in 1..MaxInvocations : RunResolve(i)

SpecOverlap == Init /\ [][NextOverlap]_vars

---------------------------------------------------------------------------
(* Properties of the tools (Spec).                                         *)

ToolNames ==
    {"get_db_info", "get_database_metrics", "get_database_queries", "get_top_rds_load"}

\* the invocation observed in `last` met a failure: its resolution raised or
\* found no match, or one of its upstream calls raised
MetFailure ==
    \/ last.resolution.raised
    \/ last.resolution.ret = None
    \/ \E i \in DOMAIN last.calls : ~last.calls[i].ok

\* the upstream operations a tool calls after its name resolution
CallsAfterResolution ==
    {"describe_db_instance", "describe_db_log_files",
     "download_db_log_file_portion", "get_metric_data"}

\* C1: whenever the name resolution of one of the four tools fails, or finds
\* no match, or an upstream call made inside the tool raises, the tool returns
\* a result whose status is "error"; no exception leaves the tool.
C1_ToolsReturnStructuredError ==
    (last.op \in ToolNames /\ MetFailure)
        => (last.result.kind = "return" /\ last.result.status = "error")

\* C2: when the resolution of get_db_info, get_database_metrics or
\* get_database_queries returns no match, the tool returns the error "No
\* matching RDS instance found" and makes no describe call for an instance, no
\* log listing, no log download and no metrics call.
C2_NoMatchIsTypedError ==
    ( /\ last.op \in {"get_db_info", "get_database_metrics", "get_database_queries"}
      /\ ~last.resolution.raised
      /\ last.resolution.ret = None )
        => /\ last.result = ErrorResult(NoMatchMessage)
           /\ \A i \in DOMAIN last.calls : last.calls[i].api \notin CallsAfterResolution

\* a tool whose inference call answered null ended with the no-match error
C2_Witness ==
    /\ last.op = "get_database_queries"
    /\ last.resolution.llm # None
    /\ last.resolution.llm[1].kind = "null"
    /\ last.result.message = NoMatchMessage

\* C3: when the Engine of the instance names neither the MySQL nor the
\* Postgres family, get_database_queries returns the error "Unsupported
\* database engine: <engine>", no parser runs, and no log listing and no log
\* download is issued.
C3_UnsupportedEngine ==
    ( /\ last.op = "get_database_queries"
      /\ last.engine # None
      /\ ~Contains(lower(last.engine[1]), mysql)
      /\ ~Contains(lower(last.engine[1]), postgres) )
        => /\ last.result =
                  Return("error", "Unsupported database engine", <<lower(last.engine[1])>>)
           /\ ~last.parsed
           /\ \A i \in DOMAIN last.calls :
                  last.calls[i].api \notin
                      {"describe_db_log_files", "download_db_log_file_portion"}

\* an instance of engine oracle-ee was asked for its slow queries
C3_Witness ==
    /\ last.op = "get_database_queries"
    /\ last.engine = Some(<<"o", "r", "a", "c", "l", "e", "-", "e", "e">>)
    /\ last.result.status = "error"
    /\ last.calls[Len(last.calls)].api = "describe_db_instance"

---------------------------------------------------------------------------
(* Properties of the client's caches (SpecClient).  In an action formula   *)
(* the unprimed variables are the state before the invocation, and last'   *)
(* is the observation of the invocation.                                   *)

\* C4: a resolution of a raw name that is a key of the name cache returns the
\* cached identifier and makes no upstream call, neither a directory fetch nor
\* an inference call; both caches stay as they were.
C4_CachedNameNoUpstream ==
    [][ ( /\ last = Idle
          /\ last'.op = "find_matching_rds_instances"
          /\ last'.name \in DOMAIN name_matching_cache )
            => /\ last'.result = Return("", "", Some(name_matching_cache[last'.name]))
               /\ last'.calls = <<>>
               /\ UNCHANGED <<name_matching_cache, rds_instances_cache>> ]_vars

\* a resolution was answered by the name cache
C4_Witness ==
    /\ last.op = "find_matching_rds_instances"
    /\ last.resolution.hit
    /\ last.result.data = Some(name_matching_cache[last.name])

\* C5: get_available_rds_instances returns the cached snapshot, with no
\* upstream call, exactly when a snapshot exists and is less than 300 seconds
\* old; otherwise (no snapshot, or an age of 300 seconds or more) it makes
\* exactly one describe_db_instances call.
C5_SnapshotServedWithinTtl ==
    [][ (last = Idle /\ last'.op = "get_available_rds_instances")
            => IF /\ rds_instances_cache.data # None
                  /\ now - rds_instances_cache.timestamp[1] < 300
               THEN /\ last'.calls = <<>>
                    /\ last'.result.data = rds_instances_cache.data
                    /\ UNCHANGED rds_instances_cache
               ELSE /\ Len(last'.calls) = 1
                    /\ last'.calls[1].api = "describe_db_instances" ]_vars

\* a snapshot exactly 300 seconds old was not served: the call went upstream
\* (and failed, which leaves the snapshot's age to be seen)
C5_Witness ==
    /\ last.op = "get_available_rds_instances"
    /\ Len(last.calls) = 1
    /\ rds_instances_cache.data # None
    /\ now - rds_instances_cache.timestamp[1] = 300

\* C6: when describe_db_instances raises during get_available_rds_instances,
\* the snapshot and its timestamp stay exactly as they were, and the operation
\* returns a result of status "error".
C6_FailedFetchKeepsCache ==
    [][ ( /\ last = Idle
          /\ \E i \in DOMAIN last'.calls :
                 last'.calls[i].api = "describe_db_instances" /\ ~last'.calls[i].ok )
            => /\ rds_instances_cache' = rds_instances_cache
               /\ last'.op = "get_available_rds_instances"
                      => last'.result.status = "error" ]_vars

\* a refresh of an expired snapshot failed and the snapshot is still there
C6_Witness ==
    /\ last.op = "get_available_rds_instances"
    /\ last.result.status = "error"
    /\ rds_instances_cache.data # None

\* C7: when the inference call raises, answers content that cannot be parsed,
\* or answers a null or missing rds_instance, the resolution returns no match
\* and the name cache is unchanged; a later resolution of the same raw name is
\* not answered by the name cache, and calls the inference service again
\* whenever it gets as far as that call (the directory being available).
C7_InferenceFailureNotCached ==
    [][ (last = Idle /\ last'.op = "find_matching_rds_instances")
            => /\ ( /\ last'.resolution.llm # None
                    /\ last'.resolution.llm[1].kind \in
                           {"fail", "nonjson", "nondict", "missing", "null"} )
                      => /\ last'.result = Return("", "", None)
                         /\ name_matching_cache' = name_matching_cache
               /\ last'.name \in unresolved
                      => /\ ~last'.resolution.hit
                         /\ ~last'.resolution.raised
                                => \E i \in DOMAIN last'.calls :
                                       last'.calls[i].api = "llm" ]_vars

\* a raw name whose resolution had failed was resolved again, and the inference
\* service was called again
C7_Witness ==
    /\ last.op = "find_matching_rds_instances"
    /\ last.retry
    /\ last.resolution.llm # None
    /\ last.resolution.llm[1].kind = "nonjson"

\* C8 (amended): when the inference service answers a non-empty identifier,
\* the resolution stores raw name -> identifier in the name cache and returns
\* the identifier as it is, whether or not the directory lists it.
C8_IdentifierStoredAsIs ==
    ( /\ last.op = "find_matching_rds_instances"
      /\ last.resolution.llm # None
      /\ last.resolution.llm[1].kind = "id" )
        => /\ last.result = Return("", "", Some(last.resolution.llm[1].value))
           /\ last.name \in DOMAIN name_matching_cache
           /\ name_matching_cache[last.name] = last.resolution.llm[1].value

\* the inference service named an identifier that the directory does not
\* list, and the name cache holds it
C8_Witness ==
    /\ last.op = "find_matching_rds_instances"
    /\ last.resolution.llm # None
    /\ last.resolution.llm[1].value = ghost
    /\ rds_instances_cache.data # None
    /\ \A i \in DOMAIN rds_instances_cache.data[1].rds_instances :
           rds_instances_cache.data[1].rds_instances[i] # ghost
    /\ last.name \in DOMAIN name_matching_cache
    /\ name_matching_cache[last.name] = ghost

\* C8 as stated: whenever the inference service answers an rds_instance that
\* is not null (the empty string included), the resolution stores it and
\* returns it.
C8_NonNullStoredAsIs ==
    ( /\ last.op = "find_matching_rds_instances"
      /\ last.resolution.llm # None
      /\ last.resolution.llm[1].kind \in {"id", "empty"} )
        => /\ last.result = Return("", "", Some(last.resolution.llm[1].value))
           /\ last.name \in DOMAIN name_matching_cache
           /\ name_matching_cache[last.name] = last.resolution.llm[1].value

---------------------------------------------------------------------------
(* Properties of best_matching_rds_instance (SpecMatcher).                 *)

\* candidate i equals the target ignoring case
IsExact(i) == lower(m_candidates[i]) = lower(m_target)

\* candidate i contains the target or is contained in it, ignoring case
IsPartial(i) ==
    \/ Contains(lower(m_candidates[i]), lower(m_target))
    \/ Contains(lower(m_target), lower(m_candidates[i]))

\* C9: if some candidate equals the target ignoring letter case, the first such
\* candidate of the list is returned, also when the list holds a shorter
\* partial match.
C9_ExactMatchWins ==
    (m_pc = "done" /\ \E i \in DOMAIN m_candidates : IsExact(i))
        => \E i \in DOMAIN m_candidates :
               /\ IsExact(i)
               /\ \A j \in 1..(i - 1) : ~IsExact(j)
               /\ m_result = Some(m_candidates[i])

\* an exact match was returned although a shorter partial match comes before it
C9_Witness ==
    /\ m_pc = "done"
    /\ \E i, j \in DOMAIN m_candidates :
           /\ j < i
           /\ IsExact(i)
           /\ IsPartial(j) /\ ~IsExact(j)
           /\ Len(m_candidates[j]) < Len(m_candidates[i])
           /\ m_result = Some(m_candidates[i])

\* C10: without an exact match, the result is the shortest partial match, the
\* first of the list among the shortest ones; it is no match exactly when the
\* target is empty, the list is empty, or the list holds no partial match.
C10_ShortestPartialMatch ==
    (m_pc = "done" /\ \A i \in DOMAIN m_candidates : ~IsExact(i))
        => IF \/ m_target = <<>>
              \/ m_candidates = <<>>
              \/ \A i \in DOMAIN m_candidates : ~IsPartial(i)
           THEN m_result = None
           ELSE \E i \in DOMAIN m_candidates :
                    /\ IsPartial(i)
                    /\ \A j \in DOMAIN m_candidates :
                           IsPartial(j) =>
                               \/ Len(m_candidates[i]) < Len(m_candidates[j])
                               \/ Len(m_candidates[i]) = Len(m_candidates[j]) /\ i <= j
                    /\ m_result = Some(m_candidates[i])

\* the shortest partial match comes after a longer one and is returned
C10_Witness ==
    /\ m_pc = "done"
    /\ \A i \in DOMAIN m_candidates : ~IsExact(i)
    /\ \E i, j \in DOMAIN m_candidates :
           /\ j < i
           /\ IsPartial(i) /\ IsPartial(j)
           /\ Len(m_candidates[i]) < Len(m_candidates[j])
           /\ m_result = Some(m_candidates[i])

---------------------------------------------------------------------------
(* Properties of the ranking (SpecRank) and of the parsers (SpecParser).   *)

\* the duration of a collected record as a number
DurationOf(family, entry) ==
    IF family = "mysql" THEN entry.query_time[1] ELSE Float(entry.query_time[1])

\* the number of the records whose duration is larger than that of x
LongerThan(family, entries, x) ==
    Cardinality({j \in DOMAIN entries :
                    FloatBefore(DurationOf(family, x), DurationOf(family, entries[j]))})

\* C11: for both engines, top_5_queries is the first min(5, n) of the n parsed
\* records ordered by numeric duration, largest first: no returned record has
\* a smaller duration than the one after it, and the k-th returned record has
\* fewer than k records with a larger duration among all parsed records.
C11_TopFiveByNumericDuration ==
    [][ p_pc = "rank"
          => LET top == p_result'[1].top_5_queries
             IN /\ Len(top) = Min(5, Len(log_entries))
                /\ \A k \in DOMAIN top :
                      /\ \E j \in DOMAIN log_entries : top[k] = log_entries[j]
                      /\ LongerThan(p_family, log_entries, top[k]) < k
                      /\ k < Len(top)
                            => ~FloatBefore(DurationOf(p_family, top[k]),
                                            DurationOf(p_family, top[k + 1])) ]_vars

\* C12: total_slow_queries of a successful result is the number of records the
\* parser found in the invocation, whatever that number is; only the list
\* top_5_queries is capped, at 5.
C12_TotalCountsEveryRecord ==
    [][ p_pc = "rank"
          => /\ p_result'[1].status = "success"
             /\ p_result'[1].total_slow_queries = Len(log_entries)
             /\ Len(p_result'[1].top_5_queries) = Min(5, Len(log_entries)) ]_vars

\* C13: every record that the MySQL or the PostgreSQL parser has appended to
\* the collected list has its duration set: no record of the list has a null
\* query_time, at any moment of the parse and in the ranked list.
C13_CollectedRecordsHaveDuration ==
    \A i \in DOMAIN log_entries : log_entries[i].query_time # None

\* the MySQL parser has just appended, on a `# Time:` line, the record of the
\* repository's test log, whose duration is 10.5
C13_Witness ==
    /\ p_family = "mysql"
    /\ p_line = Some(BareTimeLine)
    /\ Len(log_entries) = 1
    /\ log_entries[1].query_time = Some(Float(<<"1", "0", ".", "5">>))

\* C14: the MySQL parser appends a record only in a step that reads a
\* `# Time:` line, and then it appends one record, the one in progress with its
\* duration; when the input ends the record in progress is not appended.
C14_AppendedOnlyOnLaterTimeLine ==
    [][ (p_family = "mysql" /\ p_pc = "lines")
          => /\ log_entries' # log_entries
                   => /\ p_line' # None
                      /\ StartsWith(Strip(p_line'[1]), TimePrefix)
                      /\ Len(log_entries') = Len(log_entries) + 1
                      /\ SubSeq(log_entries', 1, Len(log_entries)) = log_entries
                      /\ log_entries'[Len(log_entries')].query_time
                             = current_entry.query_time
             /\ p_pc' = "rank" => log_entries' = log_entries ]_vars

\* the log of the repository's test followed by a second `# Time:` line has
\* been read: one record, with duration 10.5 and the statement of the log
C14_Witness ==
    /\ p_family = "mysql"
    /\ p_read = 4
    /\ p_line = Some(TimeLine)
    /\ Len(log_entries) = 1
    /\ log_entries[1].query_time = Some(Float(<<"1", "0", ".", "5">>))
    /\ log_entries[1].sql = Some(SelectLine)
    /\ log_entries[1].rows_examined = Some(1000)
    /\ log_entries[1].timestamp # None

---------------------------------------------------------------------------
(* Properties of the query normaliser (SpecNormalize).                     *)

\* what the IN-list collapse is stated to make of sql: the first `IN (` list,
\* up to its closing parenthesis, is shortened when it has more than 5 values,
\* and the text before the clause and after the parenthesis is kept
CollapseAsStated(sql) ==
    LET at == Find(sql, InKeyword, 1)
        rest == From(sql, at + Len(InKeyword))
        close == Find(rest, <<")">>, 1)
        list == IF close = 0 THEN rest ELSE SubSeq(rest, 1, close - 1)
        after == IF close = 0 THEN <<>> ELSE From(rest, close + 1)
        values == Split(list, <<",">>)
    IN IF Len(values) > 5
       THEN SubSeq(sql, 1, at - 1) \o InKeyword
                \o Join(SubSeq(values, 1, 3), <<",">>) \o <<",", " ", ".", ".", ".", " ">>
                \o Join(SubSeq(values, Len(values) - 1, Len(values)), <<",">>)
                \o <<")">> \o after
       ELSE sql

\* C15: for a statement with an `IN (` clause, the statement that is emitted
\* is the statement with the value list of its first `IN (` clause replaced,
\* when it has more than 5 values, by its first three values, `, ... ` and its
\* last two values, the text before the clause and after its closing
\* parenthesis kept (and then cut to the length limit); with 5 or fewer values
\* the statement is unchanged.
C15_FirstInListCollapsed ==
    (n_pc = "done" /\ Contains(n_sql, InKeyword))
        => n_result = Some(Normalized(Truncate(CollapseAsStated(n_sql))))

\* the statement after the IN-list step of the parser that normalises it
Collapsed ==
    IF n_family = "mysql" THEN CollapseMySql(n_sql).sql ELSE CollapsePostgres(n_sql).sql

\* C16: a statement that is longer than 1500 characters after the IN-list step
\* is emitted as its first 1500 characters followed by `... [truncated]`; one
\* of at most 1500 characters is emitted as it is; so no emitted statement is
\* longer than 1500 characters plus the marker.
C16_TruncatedAt1500 ==
    (n_pc = "done" /\ ~n_result[1].raised)
        => /\ Len(Collapsed) > 1500
                => n_result[1].sql = SubSeq(Collapsed, 1, 1500) \o TruncationMarker
           /\ Len(Collapsed) <= 1500 => n_result[1].sql = Collapsed
           /\ Len(n_result[1].sql) <= 1500 + Len(TruncationMarker)

\* a statement of 2000 characters was cut to 1500 characters and the marker
C16_Witness ==
    /\ n_pc = "done"
    /\ Len(n_sql) = 2000
    /\ ~n_result[1].raised
    /\ Len(n_result[1].sql) = 1515
    /\ SubSeq(n_result[1].sql, 1, 1500) = SubSeq(n_sql, 1, 1500)
    /\ SubSeq(n_result[1].sql, 1501, 1515) = TruncationMarker

---------------------------------------------------------------------------
(* Properties of the download loop (SpecFetch).                            *)

\* C17: the first download request has the cursor "0" and every request asks
\* for 1000 lines; each later request has the cursor that the response just
\* before it returned; and the text handed to the parser is the data of the
\* pages joined in the order of the requests, each page once.
C17_PagesFetchedInCursorOrder ==
    /\ \A i \in DOMAIN f_requests :
          /\ f_requests[i].NumberOfLines = 1000
          /\ i = 1 => f_requests[i].Marker = "0"
          /\ (i > 1 /\ f_responses[i - 1].Marker # None)
                => f_requests[i].Marker = f_responses[i - 1].Marker[1]
    /\ f_pc = "done"
          => /\ Len(f_requests) = Len(f_responses)
             /\ Len(log_data) = Len(f_responses)
             /\ \A i \in DOMAIN log_data : log_data[i] = DataOf(f_responses[i])
             /\ f_text = Some(Join([i \in DOMAIN f_responses |-> DataOf(f_responses[i])],
                                   <<>>))

\* three pages were requested with the cursors "0", "m1" and "m2", and their
\* texts were joined in this order
C17_Witness ==
    /\ f_pc = "done"
    /\ Len(f_requests) = 3
    /\ f_requests[2].Marker = "m1"
    /\ f_requests[3].Marker = "m2"
    /\ f_text = Some(<<"a", "\n", "b", "a", "\n">>)

---------------------------------------------------------------------------
(* Properties of the tools' upstream calls (Spec).                         *)

\* C18: in an invocation of a tool, an upstream call that fails (directory,
\* control plane, metrics or inference) is the last upstream call of the
\* invocation, and the invocation returns a result whose status is "error".
C18_FailedCallEndsInvocation ==
    last.op \in ToolNames
        => \A i \in DOMAIN last.calls :
               ~last.calls[i].ok
                   => /\ i = Len(last.calls)
                      /\ last.result.kind = "return"
                      /\ last.result.status = "error"

---------------------------------------------------------------------------
(* Properties of overlapping invocations (SpecOverlap).                    *)

\* C19: with invocations of get_available_rds_instances in flight together,
\* every invocation that returns from the cache returns a whole list that one
\* successful fetch produced less than 300 seconds before; and in every state
\* a snapshot in the cache is the list and the time of one successful fetch,
\* never the list of one with the time of another attempt.
C19_ReadersSeeWholeSnapshots ==
    /\ \A i \in DOMAIN o_inv :
          ( /\ o_inv[i].pc = "returned"
            /\ o_inv[i].op = "get_available_rds_instances"
            /\ o_inv[i].upstream = 0 )
              => \E s \in o_fetched :
                     /\ o_inv[i].ret = Some(s.data)
                     /\ s.at <= o_inv[i].at
                     /\ o_inv[i].at - s.at < 300
    /\ rds_instances_cache.data # None
          => /\ rds_instances_cache.timestamp # None
             /\ [data |-> rds_instances_cache.data[1],
                 at |-> rds_instances_cache.timestamp[1]] \in o_fetched

\* two invocations were in flight together; one fetched the list of two
\* instances and the other returned it from the cache
C19_Witness ==
    \E i, j \in DOMAIN o_inv :
        /\ o_inv[i].op = "get_available_rds_instances" /\ o_inv[i].overlapped
        /\ o_inv[j].op = "get_available_rds_instances" /\ o_inv[j].overlapped
        /\ o_inv[i].pc = "returned" /\ o_inv[i].upstream = 1
        /\ o_inv[j].pc = "returned" /\ o_inv[j].upstream = 0
        /\ o_inv[j].ret = Some(FormattedResponse(<<db1, db2>>))
        /\ o_inv[i].ret = o_inv[j].ret

\* C20: with invocations of find_matching_rds_instances for the same raw name
\* in flight together, all insertions under one key store the same
\* identifier, and the name cache holds it, whatever the order in which the
\* invocations run.
C20_WritersAgreeOnKey ==
    /\ \A a, b \in DOMAIN o_writes :
          o_writes[a].key = o_writes[b].key => o_writes[a].id = o_writes[b].id
    /\ \A a \in DOMAIN o_writes :
          /\ o_writes[a].key \in DOMAIN name_matching_cache
          /\ name_matching_cache[o_writes[a].key] = o_writes[a].id

\* two invocations for the same raw name were in flight together; the one
\* that ran first inserted, the other made no upstream call, and both
\* returned that identifier
C20_Witness ==
    /\ o_inv[1].op = "find_matching_rds_instances" /\ o_inv[1].overlapped
    /\ o_inv[2].op = "find_matching_rds_instances" /\ o_inv[2].overlapped
    /\ o_inv[1].name = o_inv[2].name
    /\ o_inv[1].pc = "returned" /\ o_inv[2].pc = "returned"
    /\ Len(o_writes) = 1 /\ o_writes[1].by = 1
    /\ o_inv[1].upstream = 2
    /\ o_inv[2].upstream = 0
    /\ o_inv[1].ret = Some(o_writes[1].id)
    /\ o_inv[2].ret = Some(o_writes[1].id)

---------------------------------------------------------------------------
(* Properties of the name cache's keys (SpecClient).                       *)

\* C21: the name cache is keyed by the exact raw name.  A resolution is
\* answered from the cache exactly when the raw name itself is a key, and then
\* with the entry stored under that very name; when only names that differ
\* from it in letter case or surrounding whitespace are cached, the resolution
\* goes upstream (it makes a call) and no cached entry answers it.
C21_CacheKeyedByExactName ==
    [][ (last = Idle /\ last'.op = "find_matching_rds_instances")
            => /\ last'.resolution.hit <=> last'.name \in DOMAIN name_matching_cache
               /\ last'.resolution.hit
                     => last'.resolution.ret = Some(name_matching_cache[last'.name])
               /\ ~last'.resolution.hit => Len(last'.calls) >= 1 ]_vars

\* "db" and "DB" are cached as db1; the resolution of "db " was not answered
\* from the cache and gave another identifier
C21_Witness ==
    /\ last.op = "find_matching_rds_instances"
    /\ last.name = <<"d", "b", " ">>
    /\ ~last.resolution.hit
    /\ last.resolution.ret = Some(ghost)
    /\ {<<"d", "b">>, <<"D", "B">>} \subseteq DOMAIN name_matching_cache
    /\ name_matching_cache[<<"d", "b">>] = db1
    /\ name_matching_cache[<<"D", "B">>] = db1

---------------------------------------------------------------------------
(* Properties of the row-oriented parser's steps (SpecParser).             *)

\* C22: in every step in which the MySQL parser reads a `# Time:` line while
\* the record in progress has a duration (whatever Query_time value its metrics
\* line carried) and at least one statement line, that record, with its lines
\* joined by single spaces and normalised, is appended to the collected list,
\* and the new record is started.
C22_TimeLineFinalizesRecord ==
    [][ ( /\ p_family = "mysql" /\ p_pc = "lines"
          /\ p_line' # None
          /\ StartsWith(Strip(p_line'[1]), TimePrefix)
          /\ current_entry.query_time # None
          /\ sql_lines # <<>> )
            => /\ log_entries'
                    = Append(log_entries,
                             [current_entry EXCEPT !.sql =
                                 Some(NormalizeMySql(Strip(Join(sql_lines, <<" ">>))).sql)])
               /\ sql_lines' = <<>>
               /\ current_entry'.query_time = None ]_vars

\* C23: the MySQL parser never takes a line that begins with `SET timestamp=`
\* or with `use ` as statement text, whether or not it is capturing a
\* statement: no such line is among the statement lines gathered.
C23_SetupLinesNeverGathered ==
    \A i \in DOMAIN sql_lines :
        /\ ~StartsWith(sql_lines[i], SetTimestampPrefix)
        /\ ~StartsWith(sql_lines[i], UsePrefix)

\* C24: the capture of a statement by the MySQL parser.  Capture is switched
\* on only by a line that does not begin with `#` and begins with `select` in
\* any letter case; the statement lines change, on a line other than `# Time:`,
\* only by the line read being appended, which happens to a non-empty line
\* without `#` that begins with `select` or is read while capturing, and to
\* every such line read while capturing; a blank line switches capture off and
\* appends nothing; while capture is off a line that does not begin with
\* `select` appends nothing and leaves capture off.  So the lines gathered
\* begin with a `select` line, and so does every record emitted.
C24_CaptureFromSelectToBlank ==
    [][ (p_family = "mysql" /\ p_pc = "lines" /\ p_line' # None)
          => LET line == Strip(p_line'[1])
                 hash == StartsWith(line, <<"#">>)
                 select == StartsWith(lower(line), SelectWord)
                 time == StartsWith(line, TimePrefix)
             IN /\ (~capture_sql /\ capture_sql') => (~hash /\ select)
                /\ (sql_lines' # sql_lines /\ ~time)
                      => /\ ~hash /\ line # <<>>
                         /\ capture_sql \/ select
                         /\ sql_lines' = Append(sql_lines, line)
                /\ (capture_sql /\ ~hash /\ line # <<>>)
                      => sql_lines' = Append(sql_lines, line) /\ capture_sql'
                /\ line = <<>> => (~capture_sql' /\ sql_lines' = sql_lines)
                /\ (~capture_sql /\ ~select)
                      => (~capture_sql' /\ (time \/ sql_lines' = sql_lines))
                /\ sql_lines' # <<>> => StartsWith(lower(sql_lines'[1]), SelectWord)
                /\ \A i \in DOMAIN log_entries' :
                       StartsWith(lower(log_entries'[i].sql[1]), SelectWord) ]_vars

\* a statement of two lines was captured, a blank line ended the capture, and
\* the line read after it, which does not begin with `select`, was not appended
C24_Witness ==
    /\ p_family = "mysql"
    /\ p_read = 4
    /\ p_line = Some(FromLine)
    /\ ~capture_sql
    /\ sql_lines = <<SelectLine, <<"F", "R", "O", "M", " ", "t">> >>

\* C25: when the MySQL parser reads a `# Time:` line whose text is not a
\* timestamp, the call does not fail: the parse goes on with the next line and
\* the new record is started with no timestamp and no other field.  A record
\* in progress without a timestamp that has a non-zero duration and statement
\* lines is appended, its timestamp unset, when the next `# Time:` line is read.
C25_BadTimestampLeftUnset ==
    [][ \A line \in MySqlLines :
          ( /\ p_family = "mysql" /\ p_pc = "lines"
            /\ p_line' = Some(line)
            /\ StartsWith(Strip(line), TimePrefix) )
            => /\ ParseTime(Strip(Replace(Strip(line), TimePrefix \o <<" ">>, <<>>))) = None
                    => /\ p_pc' = "lines" /\ p_result' = None
                       /\ current_entry' = EmptyEntry
                       /\ sql_lines' = <<>> /\ ~capture_sql'
               /\ ( /\ current_entry.timestamp = None
                    /\ current_entry.query_time # None
                    /\ current_entry.query_time[1] # Zero
                    /\ sql_lines # <<>> )
                    => /\ Len(log_entries') = Len(log_entries) + 1
                       /\ log_entries'[Len(log_entries')].timestamp = None
                       /\ log_entries'[Len(log_entries')].query_time
                              = current_entry.query_time ]_vars

\* the call has returned a success whose one record was started by a `# Time:`
\* line without a timestamp: its timestamp is unset, its duration is 2
C25_Witness ==
    /\ p_family = "mysql"
    /\ p_pc = "done"
    /\ p_result # None
    /\ p_result[1].status = "success"
    /\ p_result[1].total_slow_queries = 1
    /\ p_result[1].top_5_queries[1].timestamp = None
    /\ p_result[1].top_5_queries[1].query_time = Some(Float(<<"2">>))
    /\ p_result[1].top_5_queries[1].sql = Some(SelectLine)

---------------------------------------------------------------------------
(* Properties of the block-oriented parser's steps (SpecParser).           *)

\* C26: the PostgreSQL parser emits one record per block that has the shape
\* `LOG:  duration: <n> ms  statement: <text>`, in the order of the blocks.
\* A block starts at a line with a timestamp and runs to the next such line or
\* to the end of the file.  When a block ends, the collected list stays as it
\* is if the block does not match, and gets one record more, after those it
\* had (those of earlier blocks and earlier files), with the duration and the
\* normalised statement of the block, if it matches; a line without a
\* timestamp emits nothing; the last block is processed when the input ends.
\* (A statement on which the normaliser raises ends the call with an error.)
C26_OneRecordPerMatchingBlock ==
    [][ (p_family = "postgres" /\ p_pc = "lines")
          => LET match == DurationSearch(Join(buffer, <<"\n">>), 1)
                 ends == \/ p_line' = None
                         \/ p_line' # None /\ TimestampMatch(Strip(p_line'[1]))
             IN IF ends /\ buffer # <<>> /\ match # None
                THEN IF NormalizePostgres(match[1].sql).raised
                     THEN /\ p_pc' = "done" /\ p_result' = Some(QueriesFailure)
                          /\ log_entries' = log_entries
                     ELSE /\ Len(log_entries') = Len(log_entries) + 1
                          /\ SubSeq(log_entries', 1, Len(log_entries)) = log_entries
                          /\ log_entries'[Len(log_entries')].query_time
                                 = Some(match[1].duration)
                          /\ log_entries'[Len(log_entries')].sql
                                 = Some(NormalizePostgres(match[1].sql).sql)
                          /\ p_pc' = IF p_line' = None THEN "rank" ELSE "lines"
                ELSE /\ log_entries' = log_entries
                     /\ p_pc' = IF p_line' = None THEN "rank" ELSE "lines" ]_vars

\* a file of three lines has been read to its end after an earlier file that
\* gave one record: its first block gave the record of duration 5, the line
\* between the blocks gave nothing, and its last block, which no timestamp line
\* follows, gave the record of duration 20
C26_Witness ==
    /\ p_family = "postgres"
    /\ p_pc = "rank"
    /\ p_read = 3
    /\ buffer = <<Took20Line>>
    /\ Len(log_entries) = 3
    /\ log_entries[1].query_time = Some(<<"9">>)
    /\ log_entries[2].query_time = Some(<<"5">>)
    /\ log_entries[2].sql = Some(<<"S", "E", "L", "E", "C", "T", " ", "1">>)
    /\ log_entries[3].query_time = Some(<<"2", "0">>)
    /\ log_entries[3].sql = Some(<<"S", "E", "L", "E", "C", "T", " ", "2">>)

---------------------------------------------------------------------------
(* Properties of the normaliser's keyword handling (SpecNormalize).        *)

\* C27: a statement whose IN clause is written `in (` is normalised without
\* an error, and, letter case aside, to the same text as the statement with
\* the keyword written `IN (`.
C27_KeywordInAnyCase ==
    (n_pc = "done" /\ Contains(n_sql, LowerInKeyword))
        => LET asUpper == Replace(n_sql, LowerInKeyword, InKeyword)
               want == IF n_family = "mysql" THEN NormalizeMySql(asUpper)
                       ELSE NormalizePostgres(asUpper)
           IN /\ ~n_result[1].raised
              /\ ~want.raised => upper(n_result[1].sql) = upper(want.sql)

\* the text of sql after the closing parenthesis of its first `IN (` clause
AfterFirstClause(sql) ==
    LET rest == From(sql, Find(sql, InKeyword, 1) + Len(InKeyword))
    IN IF Find(rest, <<")">>, 1) = 0 THEN <<>>
       ELSE From(rest, Find(rest, <<")">>, 1) + 1)

\* C28: the normalised form of a statement with two or more `IN (` clauses
\* (short enough not to be cut) ends with the text that follows the closing
\* parenthesis of the first clause, every later clause included, unchanged.
C28_LaterClausesUntouched ==
    (n_pc = "done" /\ Len(Split(n_sql, InKeyword)) >= 3 /\ Len(n_sql) < 100)
        => LET after == AfterFirstClause(n_sql)
               sql == n_result[1].sql
           IN /\ ~n_result[1].raised
              /\ Len(sql) >= Len(after)
              /\ SubSeq(sql, Len(sql) - Len(after) + 1, Len(sql)) = after

\* C29: the two parsers normalise alike: the outcome of the normalisation of a
\* statement on the path of one engine, its text or its failure, is the
\* outcome the statement has on the MySQL path and on the PostgreSQL path.
C29_SameNormaliserOnBothPaths ==
    n_pc = "done"
        => /\ n_result[1] = NormalizeMySql(n_sql)
           /\ n_result[1] = NormalizePostgres(n_sql)

---------------------------------------------------------------------------
(* Termination of the download loop (SpecFetchLive).                       *)

\* C30: the download loop ends with the first response that does not report
\* more data pending: an iteration that gets such a response is the last one
\* and the pages are joined, an iteration that gets a response reporting more
\* data is followed by another request; so while the loop is running every
\* response so far reported more data, and when it has ended only the last
\* one did not.  The loop goes on until it has ended (or a request has
\* failed), however many requests that takes within MaxRequests.
C30_LoopEndsAtFirstFinalResponse ==
    /\ [][ f_pc = "request"
             => /\ Len(f_requests') = Len(f_requests) + 1
                /\ Len(f_responses') = Len(f_responses) + 1
                     => IF f_responses'[Len(f_responses')].AdditionalDataPending
                               = Some(TRUE)
                        THEN f_pc' = "request" /\ f_text' = None
                        ELSE f_pc' = "done" /\ f_text' = Some(Join(log_data', <<>>)) ]_vars
    /\ [](f_pc = "request"
            => \A i \in DOMAIN f_responses :
                   f_responses[i].AdditionalDataPending = Some(TRUE))
    /\ [](f_pc = "done"
            => /\ Len(f_requests) = Len(f_responses)
               /\ \A i \in DOMAIN f_responses :
                      (f_responses[i].AdditionalDataPending = Some(TRUE))
                          <=> i < Len(f_responses))
    /\ <>(f_pc \in {"done", "failed"} \/ Len(f_requests) = MaxRequests)

\* the loop has ended at its third request: two responses reported more data,
\* the third reported that none is pending
C30_Witness ==
    /\ f_pc = "done"
    /\ Len(f_requests) = 3
    /\ f_responses[1].AdditionalDataPending = Some(TRUE)
    /\ f_responses[2].AdditionalDataPending = Some(TRUE)
    /\ f_responses[3].AdditionalDataPending = Some(FALSE)
    /\ f_text # None

---------------------------------------------------------------------------
(* Responses of the download loop with keys missing (SpecFetch).           *)

\* the response of the latest iteration has neither a cursor nor the flag
BareResponse(responses) ==
    /\ responses # <<>>
    /\ responses[Len(responses)].Marker = None
    /\ responses[Len(responses)].AdditionalDataPending = None

\* C31 as stated: after a response that has neither the cursor nor the flag
\* the cursor is "0" again and the loop goes on with another request.
C31_BareResponseKeepsLooping ==
    [][ (f_pc = "request" /\ Len(f_responses') = Len(f_responses) + 1
           /\ BareResponse(f_responses'))
            => (marker' = "0" /\ f_pc' = "request") ]_vars

\* C31: a response that has neither the cursor nor the flag ends the loop
\* (a missing flag counts as no more data), the cursor being "0" again; the
\* loop goes on from cursor "0" after a response that reports more data
\* without giving a cursor, and the next request then carries the cursor "0".
C31_MissingFlagEndsLoop ==
    [][ (f_pc = "request" /\ Len(f_responses') = Len(f_responses) + 1)
            => LET response == f_responses'[Len(f_responses')]
               IN /\ response.AdditionalDataPending = None
                       => (f_pc' = "done" /\ f_text' # None)
                  /\ response.Marker = None => marker' = "0"
                  /\ (response.Marker = None
                        /\ response.AdditionalDataPending = Some(TRUE))
                       => f_pc' = "request"
                  /\ f_requests'[Len(f_requests')].Marker = marker ]_vars

\* the loop has asked for the page at cursor "0" three times, each of the
\* first two responses reporting more data without a cursor, and has ended
\* at a third response with neither the cursor nor the flag
C31_Witness ==
    /\ f_pc = "done"
    /\ Len(f_requests) = 3
    /\ \A i \in 1..3 : f_requests[i].Marker = "0"
    /\ \A i \in 1..2 : /\ f_responses[i].Marker = None
                       /\ f_responses[i].AdditionalDataPending = Some(TRUE)
    /\ BareResponse(f_responses)

\* ---------------------------------------------------------------------------
\* get_database_queries, a Postgres engine: which log files are downloaded
\* ---------------------------------------------------------------------------

\* describe_db_log_files requests of one call, files listed by one response
MaxListPages == 2
MaxListed == 1

\* datetime.now(timezone.utc), in ms: a time at which the doubles of
\* time_threshold_ms are exact, and one at which they are not
CallTimes == {10000000, 9998005}

\* Natural numbers beyond the machine word, as their digits in base 1024,
\* lowest first and without leading zeros: the arithmetic of the doubles in
\* `time_threshold.timestamp() * 1000` needs 63 bits
RECURSIVE Big(_)
Big(n) == IF n = 0 THEN <<>> ELSE <<n % 1024>> \o Big(n \div 1024)

RECURSIVE Small(_)
Small(b) == IF b = <<>> THEN 0 ELSE b[1] + 1024 * Small(Tail(b))

RECURSIVE Pow2(_)
Pow2(k) == IF k = 0 THEN 1 ELSE 2 * Pow2(k - 1)

\* b * m + carry, for m up to 10^6
RECURSIVE MulAdd(_, _, _)
MulAdd(b, m, carry) ==
    IF b = <<>> THEN Big(carry)
    ELSE <<(b[1] * m + carry) % 1024>> \o MulAdd(Tail(b), m, (b[1] * m + carry) \div 1024)

RECURSIVE DropLeadingZeros(_)
DropLeadingZeros(b) ==
    IF b # <<>> /\ b[Len(b)] = 0 THEN DropLeadingZeros(SubSeq(b, 1, Len(b) - 1)) ELSE b

\* quotient and remainder of b by m, for m up to 10^6
RECURSIVE DivRem(_, _)
DivRem(b, m) ==
    IF b = <<>> THEN [q |-> <<>>, r |-> 0]
    ELSE LET hi == DivRem(Tail(b), m)
             cur == hi.r * 1024 + b[1]
         IN [q |-> DropLeadingZeros(<<cur \div m>> \o hi.q), r |-> cur % m]

\* b * 2^k and floor(b / 2^k)
ShiftLeft(b, k) ==
    IF b = <<>> THEN <<>>
    ELSE [i \in 1..(k \div 10) |-> 0] \o MulAdd(b, Pow2(k % 10), 0)
ShiftRight(b, k) ==
    IF k \div 10 >= Len(b) THEN <<>>
    ELSE DivRem(SubSeq(b, (k \div 10) + 1, Len(b)), Pow2(k % 10)).q

RECURSIVE BitsOf(_)
BitsOf(n) == IF n = 0 THEN 0 ELSE 1 + BitsOf(n \div 2)
BitLen(b) == IF b = <<>> THEN 0 ELSE 10 * (Len(b) - 1) + BitsOf(b[Len(b)])

\* round to nearest, ties to even: the quotient q of a division by m that
\* left the remainder r
RoundHalfEven(q, r, m) ==
    IF 2 * r > m \/ (2 * r = m /\ q # <<>> /\ q[1] % 2 = 1)
    THEN MulAdd(q, 1, 1) ELSE q

\* int(abs(timestamp()) * 1000) for a time `us` microseconds from the epoch.
\* timestamp() is us / 10**6 rounded to a double, a 53-bit m with m * 2^-s;
\* the product with 1000 is rounded to 53 bits again, and int() cuts the
\* fraction off
FloatMillis(us) ==
    IF us = <<>> THEN 0
    ELSE LET s0 == 73 - BitLen(us)
             s == IF BitLen(DivRem(ShiftLeft(us, s0), 1000000).q) = 54 THEN s0 - 1 ELSE s0
             d == DivRem(ShiftLeft(us, s), 1000000)
             m == RoundHalfEven(d.q, d.r, 1000000)
             p == MulAdd(m, 1000, 0)
             cut == BitLen(p) - 53
             e == DivRem(p, Pow2(cut))
             y == RoundHalfEven(e.q, e.r, Pow2(cut))
         IN Small(ShiftRight(y, s - cut))

\* time_threshold = now - timedelta(minutes=period_minutes), then
\* time_threshold_ms = int(time_threshold.timestamp() * 1000): the product is
\* one of doubles and int() truncates it, which for some times gives the
\* millisecond before the exact one.  `now_ms` is a time of whole milliseconds
time_threshold_ms(now_ms, period_minutes) ==
    LET minutes == (now_ms \div 60000) - period_minutes
        rest == now_ms % 60000
    IN IF minutes >= 0
       THEN FloatMillis(MulAdd(MulAdd(Big(minutes), 60000, rest), 1000, 0))
       ELSE 0 - FloatMillis(MulAdd(MulAdd(Big((0 - minutes) - 1), 60000, 60000 - rest), 1000, 0))

\* a listed file carries its LastWritten time or none; the times are
\* now - period and the two milliseconds before it
LastWrittenValues(now_ms, period_minutes) ==
    {None} \cup {Some(now_ms - period_minutes * 60000 - d) : d \in {0, 1, 2}}

LogFileNameAt(page, slot) ==
    "error/postgresql.log." \o ToString(page) \o "-" \o ToString(slot)

ListedFiles(page, now_ms, period_minutes) ==
    {[slot \in 1..Len(w) |-> [LogFileName |-> LogFileNameAt(page, slot), LastWritten |-> w[slot]]] :
        w \in UNION {[1..n -> LastWrittenValues(now_ms, period_minutes)] : n \in 0..MaxListed}}

\* the cursor of a response: none, an empty one, or the cursor of the next page
DescribeCursors(page) == {None, Some(""), Some("m" \o ToString(page))}

LogFileResponses(page, now_ms, period_minutes) ==
    {[raised |-> FALSE, DescribeDBLogFiles |-> files, Marker |-> m] :
        files \in ListedFiles(page, now_ms, period_minutes), m \in DescribeCursors(page)}

LogFileFailure == [raised |-> TRUE, DescribeDBLogFiles |-> <<>>, Marker |-> None]

\* `if describe_marker:` / `if not describe_marker:`
HasCursor(m) == m # None /\ m[1] # ""

\* log_file.get('LastWritten', 0) >= time_threshold_ms
Recent(log_file, threshold) ==
    (IF log_file.LastWritten = None THEN 0 ELSE log_file.LastWritten[1]) >= threshold

\* the `for log_file in ...` loop over one response: the names appended
RECURSIVE KeptNames(_, _)
KeptNames(files, threshold) ==
    IF files = <<>> THEN <<>>
    ELSE IF Recent(Head(files), threshold)
         THEN <<Head(files).LogFileName>> \o KeptNames(Tail(files), threshold)
         ELSE KeptNames(Tail(files), threshold)

InitDiscovery ==
    /\ l_now \in CallTimes
    /\ l_period \in Periods
    /\ l_threshold = time_threshold_ms(l_now, l_period)
    /\ describe_marker = None
    /\ log_files = <<>>
    /\ l_pc = "describe"
    /\ l_requests = <<>>
    /\ l_responses = <<>>
    /\ l_downloads = <<>>

\* one iteration of the describe loop
DescribeLogFiles ==
    /\ l_pc = "describe"
    /\ Len(l_requests) < MaxListPages
    /\ l_requests' = Append(l_requests,
            [FilenameContains |-> "error/postgresql.log.",
             Marker |-> IF HasCursor(describe_marker) THEN describe_marker ELSE None])
    /\ \E response \in LogFileResponses(Len(l_requests) + 1, l_now, l_period)
                            \cup {LogFileFailure} :
          IF response.raised
          THEN /\ l_pc' = "failed"
               /\ UNCHANGED <<describe_marker, log_files, l_responses>>
          ELSE /\ l_responses' = Append(l_responses, response)
               /\ log_files' = log_files \o KeptNames(response.DescribeDBLogFiles, l_threshold)
               /\ describe_marker' = response.Marker
               /\ l_pc' = IF HasCursor(response.Marker) THEN "describe"
                          ELSE IF log_files' = <<>> THEN "done" ELSE "download"
    /\ UNCHANGED <<l_now, l_period, l_threshold, l_downloads>>

\* one iteration of `for log_file_name in log_files:`; a download that raises
\* ends the call
DownloadLogFile ==
    /\ l_pc = "download"
    /\ l_downloads' = Append(l_downloads, log_files[Len(l_downloads) + 1])
    /\ \E ok \in BOOLEAN :
          l_pc' = IF ~ok THEN "failed"
                  ELSE IF Len(l_downloads') = Len(log_files) THEN "done" ELSE "download"
    /\ UNCHANGED <<l_now, l_period, l_threshold, describe_marker, log_files, l_requests,
                    l_responses>>

NextDiscovery ==
    /\ DescribeLogFiles \/ DownloadLogFile
    /\ UNCHANGED <<clientVars, matchVars, parserVars, normVars, fetchVars, overlapVars, periodVars>>

\* the initial states of SpecDiscovery: everything else is idle
StartDiscovery ==
    /\ InitDiscovery
    /\ ParserOff
    /\ NormalizerOff
    /\ FetchOff
    /\ OverlapOff
    /\ PeriodOff
    /\ RestIdle

SpecDiscovery == StartDiscovery /\ [][NextDiscovery]_vars

\* every file listed so far, over all pages, in listing order
RECURSIVE AllListed(_)
AllListed(responses) ==
    IF responses = <<>> THEN <<>>
    ELSE AllListed(SubSeq(responses, 1, Len(responses) - 1))
            \o responses[Len(responses)].DescribeDBLogFiles

\* the listed files last written at or after now - period
RECURSIVE DatedSince(_, _)
DatedSince(files, since) ==
    IF files = <<>> THEN <<>>
    ELSE IF Head(files).LastWritten # None /\ Head(files).LastWritten[1] >= since
         THEN <<Head(files).LogFileName>> \o DatedSince(Tail(files), since)
         ELSE DatedSince(Tail(files), since)

\* C32: Postgres log-file discovery calls describe-log-files repeatedly, each
\* request passing the cursor of the previous response (the first passes
\* none), and goes on exactly while the response carries a cursor; the files
\* downloaded afterwards are exactly the listed files, over all pages and in
\* listing order, last written at or after now - period, a file without a
\* last-written time being left out.
C32_DiscoveryKeepsRecentFilesInOrder ==
    LET wanted == DatedSince(AllListed(l_responses), l_now - l_period * 60000)
    IN  l_pc # "off" =>
        /\ \A i \in 1..Len(l_requests) :
              l_requests[i].Marker = IF i = 1 THEN None ELSE l_responses[i - 1].Marker
        /\ \A i \in 1..Len(l_responses) :
              HasCursor(l_responses[i].Marker)
                  <=> (i < Len(l_responses) \/ l_pc = "describe"
                          \/ (l_pc = "failed" /\ Len(l_requests) > Len(l_responses)))
        /\ l_pc = "describe" => l_downloads = <<>>
        /\ Len(l_downloads) <= Len(wanted)
        /\ \A i \in 1..Len(l_downloads) : l_downloads[i] = wanted[i]
        /\ l_pc = "download" => Len(l_downloads) < Len(wanted)
        /\ l_pc = "done" => l_downloads = wanted

\* what the code does instead: the files downloaded are those whose
\* last-written time is at or after time_threshold_ms, which the doubles of
\* timestamp() * 1000 put at now - period or at the millisecond before it
DiscoveryFollowsComputedThreshold ==
    l_pc # "off" =>
        /\ l_threshold \in {l_now - l_period * 60000, l_now - l_period * 60000 - 1}
        /\ \A i \in 1..Len(l_downloads) :
              l_downloads[i] = DatedSince(AllListed(l_responses), l_threshold)[i]
        /\ l_pc = "done" => l_downloads = DatedSince(AllListed(l_responses), l_threshold)

---------------------------------------------------------------------------
(* Properties of the resolver's strategies (SpecClient).                   *)

\* the identifiers of the directory snapshot the client holds
HeldIds ==
    IF rds_instances_cache.data = None THEN <<>>
    ELSE rds_instances_cache.data[1].rds_instances

\* C33: a resolution never falls back to the deterministic matcher.  When the
\* name is not cached and the inference call fails or gives no identifier, the
\* resolution returns no match and stores nothing, whatever the directory
\* lists; an identifier a resolution returns is the cached one or the one the
\* inference call gave; and no resolution runs best_matching_rds_instance.
C33_NoFallbackToMatcher ==
    [][ (last'.resolution.made /\ last' # last)
            => LET r == last'.resolution
               IN /\ (~r.hit /\ ~r.raised /\ r.llm # None /\ r.llm[1].kind # "id")
                        => /\ r.ret = None
                           /\ name_matching_cache' = name_matching_cache
                  /\ r.ret # None
                        => \/ r.hit /\ last'.name \in DOMAIN name_matching_cache
                                    /\ r.ret = Some(name_matching_cache[last'.name])
                           \/ ~r.hit /\ r.llm # None /\ r.llm[1].kind = "id"
                                     /\ r.ret = Some(r.llm[1].value)
                  /\ \A i \in DOMAIN last'.calls :
                        last'.calls[i].api # "best_matching_rds_instance"
                  /\ UNCHANGED matchVars ]_vars

\* the inference call returned null for a name that the directory's db1
\* matches exactly when case is ignored, and the resolution found no match
C33_Witness ==
    /\ last.op = "find_matching_rds_instances"
    /\ last.name = <<"D", "B", "1">>
    /\ ~last.resolution.raised /\ ~last.resolution.hit
    /\ last.resolution.llm = Some([kind |-> "null", value |-> <<>>])
    /\ last.resolution.ret = None
    /\ HeldIds = <<db1, db2>>
    /\ ExactMatches(last.name, HeldIds) = <<db1>>
    /\ best_matching_rds_instance(last.name, HeldIds) = Some(db1)

---------------------------------------------------------------------------
(* Properties of the name cache's lifetime (SpecClient).                   *)

\* C34: the name cache only grows.  No step, be it a resolution, a directory
\* fetch or the passing of time, removes a key or replaces the identifier
\* stored under a key, also when the directory snapshot held does not list
\* that identifier.
C34_NameCacheOnlyGrows ==
    [][ \A k \in DOMAIN name_matching_cache :
            /\ k \in DOMAIN name_matching_cache'
            /\ name_matching_cache'[k] = name_matching_cache[k] ]_vars

\* two names are cached; the directory snapshot held lists no db1, and a
\* resolution has just returned db1 from the cache
C34_Witness ==
    /\ last.op = "find_matching_rds_instances"
    /\ last.resolution.hit
    /\ last.resolution.ret = Some(db1)
    /\ name_matching_cache[last.name] = db1
    /\ Cardinality(DOMAIN name_matching_cache) >= 2
    /\ rds_instances_cache.data # None
    /\ HeldIds = <<>>

---------------------------------------------------------------------------
(* get_database_queries, a MySQL engine: invocations that differ in         *)
(* period_minutes, made on the same log text.                               *)

\* most records in the log text, most invocations made on it
MaxBlocks == 2
MaxRuns == 2

\* a record written three quarters of an hour before TimeLine's
OldTimeLine ==
    <<"#", " ", "T", "i", "m", "e", ":", " ", "2", "0", "2", "4", "-", "0",
      "1", "-", "0", "1", "T", "0", "9", ":", "1", "5", ":", "0", "0", ".",
      "0", "0", "0", "Z">>

\* the lines of one record: when it was written, how long it took, the query
RecordBlocks ==
    {<<t, m, SelectLine>> : t \in {TimeLine, OldTimeLine}, m \in {MetricsLine, QuickLine}}

RECURSIVE Flatten(_)
Flatten(blocks) ==
    IF blocks = <<>> THEN <<>> ELSE Head(blocks) \o Flatten(Tail(blocks))

\* log texts of up to MaxBlocks records; the `# Time:` line of a next record
\* follows the last one
LogTexts ==
    {Join(Flatten(blocks) \o <<TimeLine>>, <<"\n">>) :
        blocks \in UNION {[1..n -> RecordBlocks] : n \in 0..MaxBlocks}}

\* what the line-by-line parser makes of each text
LogParses == [text \in LogTexts |-> ParseMySql(text)]

\* minutes since midnight of an ISO timestamp text
MinuteOf(ts) == Natural(SubSeq(ts, 12, 13)) * 60 + Natural(SubSeq(ts, 15, 16))

\* the result dictionary of a successful invocation
QueriesDict(ranking, period_minutes) ==
    [status |-> ranking.status,
     message |-> None,
     period_minutes |-> Some(period_minutes),
     total_slow_queries |-> ranking.total_slow_queries,
     top_5_queries |-> ranking.top_5_queries]

\* the dictionary of the except clause and of the no-match return: a status
\* and a message only
QueriesErrorDict(message) ==
    [status |-> "error", message |-> Some(message), period_minutes |-> None,
     total_slow_queries |-> 0, top_5_queries |-> <<>>]

\* get_database_queries(database_name, period_minutes), called on
\* 2024-01-01 at 10:01Z, after the resolution r of the name; the instance is
\* a MySQL one, its slow-query log comes in one portion, and st is the state
\* the parser ends in on that text.  time_threshold is computed before the
\* engine is looked at and is not used on the MySQL branch
MySqlQueries(r, st, period_minutes) ==
    IF r.raised \/ r.ret = None
    THEN QueriesErrorDict(ResolutionError(r).message)
    ELSE IF ~ThresholdInRange(period_minutes)
    THEN QueriesErrorDict("date value out of range")
    ELSE IF st.raised THEN QueriesErrorDict("parsing failed")
    ELSE QueriesDict(QueriesSuccess("mysql", st.log_entries), period_minutes)

InitPeriod ==
    /\ q_text \in LogTexts
    /\ q_runs = <<>>

\* one invocation, with a name and a period of the caller's choice: the
\* resolution stores what it fetched and what it resolved, as in every tool
QueryMySql ==
    /\ Len(q_runs) < MaxRuns
    /\ \E name \in RawNames : \E r \in Resolutions(name) :
          /\ Resolved(name, r)
          /\ \E period_minutes \in QueryPeriods :
                q_runs' = Append(q_runs,
                                 [period_minutes |-> period_minutes,
                                  resolved |-> ~r.raised /\ r.ret # None,
                                  result |-> MySqlQueries(r, LogParses[q_text], period_minutes)])
    /\ UNCHANGED <<q_text, last>>
    /\ UNCHANGED <<matchVars, parserVars, normVars, fetchVars, overlapVars, listVars>>

\* the invocations, one after the other, with the clock
NextPeriod ==
    \/ Tick
    \/ QueryMySql

\* the initial states of SpecPeriod: everything else is idle
StartPeriod ==
    /\ InitPeriod
    /\ ParserOff
    /\ NormalizerOff
    /\ FetchOff
    /\ OverlapOff
    /\ ListingOff
    /\ RestIdle

SpecPeriod == StartPeriod /\ [][NextPeriod]_vars

\* C35: for a MySQL engine period_minutes selects no records.  Any two
\* invocations on the same log text that reached the instance return the same
\* total_slow_queries and the same top_5_queries, whatever their periods; each
\* echoes its own period_minutes, and the count is that of all the records of
\* the text.
C35_PeriodSelectsNothingOnMySql ==
    \A i, j \in DOMAIN q_runs :
        (q_runs[i].resolved /\ q_runs[j].resolved)
            => /\ q_runs[i].result.status = "success"
               /\ q_runs[i].result.period_minutes = Some(q_runs[i].period_minutes)
               /\ q_runs[i].result.total_slow_queries = Len(LogParses[q_text].log_entries)
               /\ q_runs[i].result.total_slow_queries = q_runs[j].result.total_slow_queries
               /\ q_runs[i].result.top_5_queries = q_runs[j].result.top_5_queries

\* what the code does: the invocations whose period leaves now - period a date
\* of the calendar (at 2024-01-01T10:01Z: up to 1063995001 minutes) return the
\* same total_slow_queries, that of all the records of the text, and the same
\* top_5_queries, each echoing its own period_minutes; an invocation with the
\* longer period of the model returns an error and no records.
PeriodInRangeSelectsNothing ==
    /\ \A i \in DOMAIN q_runs :
          q_runs[i].resolved
              => IF q_runs[i].period_minutes <= 1063995001
                 THEN /\ q_runs[i].result.status = "success"
                      /\ q_runs[i].result.period_minutes = Some(q_runs[i].period_minutes)
                      /\ q_runs[i].result.total_slow_queries = Len(LogParses[q_text].log_entries)
                 ELSE q_runs[i].result = QueriesErrorDict("date value out of range")
    /\ \A i, j \in DOMAIN q_runs :
          ( /\ q_runs[i].resolved /\ q_runs[j].resolved
            /\ q_runs[i].period_minutes <= 1063995001
            /\ q_runs[j].period_minutes <= 1063995001 )
              => /\ q_runs[i].result.total_slow_queries = q_runs[j].result.total_slow_queries
                 /\ q_runs[i].result.top_5_queries = q_runs[j].result.top_5_queries

\* the text holds a record of 09:15 and one of 10:00; an invocation with a
\* period of 30 minutes and one with 60 both returned the two records
TwoPeriodsSameRecords ==
    /\ Len(q_runs) = 2
    /\ q_runs[1].period_minutes = 30
    /\ q_runs[2].period_minutes = 60
    /\ q_runs[1].result.period_minutes = Some(30)
    /\ q_runs[2].result.period_minutes = Some(60)
    /\ q_runs[1].result.total_slow_queries = 2
    /\ q_runs[2].result.total_slow_queries = 2
    /\ Len(q_runs[1].result.top_5_queries) = 2
    /\ q_runs[1].result.top_5_queries = q_runs[2].result.top_5_queries
    /\ \E a, b \in 1..2 :
          /\ MinuteOf(q_runs[1].result.top_5_queries[a].timestamp[1]) = 555
          /\ MinuteOf(q_runs[1].result.top_5_queries[b].timestamp[1]) = 600

---------------------------------------------------------------------------
(* Properties of what best_matching_rds_instance hands back (SpecMatcher). *)

\* C36: whenever best_matching_rds_instance returns a value other than
\* no-match, the value is an element of the candidates list, spelled and cased
\* as it is there; and the call leaves the candidates list as it was, in its
\* original order.
C36_ReturnsAnOriginalCandidate ==
    [][ (m_pc = "ready" /\ m_pc' = "done")
            => /\ m_candidates' = m_candidates
               /\ m_result' # None
                    => \E i \in DOMAIN m_candidates : m_candidates[i] = m_result'[1] ]_vars

\* for the target aA the partial matches are AAb and A; the shorter one, A, is
\* returned in its capital, and the list still has AAb first
C36_Witness ==
    /\ m_pc = "done"
    /\ m_target = <<"a", "A">>
    /\ m_candidates = << <<"A", "A", "b">>, <<"A">> >>
    /\ PartialMatches(m_target, m_candidates) = m_candidates
    /\ SortByLen(PartialMatches(m_target, m_candidates)) # m_candidates
    /\ m_result = Some(<<"A">>)

====
